---------------------------- MODULE Spec2Model ----------------------------
(***************************************************************************)
(* A model of the UEFITool firmware-image parser: the tree model           *)
(* (treemodel.cpp), the byte-array helpers (bytearray.h), the two          *)
(* generations of the FFS parser kept in the repository                    *)
(* (common/ffsparser.cpp and the newer engine), the FIT pass and the       *)
(* UEFIExtract front end.                                                  *)
(*                                                                         *)
(* Byte arrays are modelled as views [s, n] into the opened image: s is    *)
(* the absolute position of the first byte and n the length.  The image    *)
(* itself is kept field by field: its size, the descriptor fields, the     *)
(* volume-header candidates, the file headers and the runs of bytes that   *)
(* are uniformly 00h or FFh.                                               *)
(***************************************************************************)
EXTENDS Integers, Sequences, FiniteSets, TLC

VARIABLES
    engine,       \* which parser generation runs: "part003" or "common"
    image,        \* the opened image (input)
    pc,           \* position of the caller inside parse()/dump()
    model,        \* TreeModel: [items, root, kids]
    messages,     \* FfsParser::messagesVector
    lastVtf,      \* FfsParser::lastVtf (0 = invalid index)
    root,         \* the index performFirstPass hands back to parse
    firstResult,  \* value returned by performFirstPass
    result,       \* value returned by FfsParser::parse
    rawLog,       \* one record per completed parseRawArea call
    loopLog,      \* one record per entry into and per iteration of a parsing loop
    preparseLog,  \* one record per parseSections call with insertIntoTree = false
    calls,        \* the calls of UEFIExtract::dump that wmain has made so far
    fitTable,     \* FfsParser::fitTable / FitParser::fitTable
    dumpResult,   \* value returned by UEFIExtract::dump
    initialized   \* UEFIExtract::initialized

vars == <<engine, image, pc, model, messages, lastVtf, root, firstResult, result, rawLog, loopLog, preparseLog, calls,
          fitTable, dumpResult, initialized>>

\* ------------------------------------------------------------------------
\* Bounds
\* ------------------------------------------------------------------------
MaxItems == 3

\* the calls of dump that wmain makes on one instance
MaxCalls == 2

\* ------------------------------------------------------------------------
\* Small helpers
\* ------------------------------------------------------------------------
Min(a, b) == IF a < b THEN a ELSE b

Max(a, b) == IF a > b THEN a ELSE b

ALIGN8(x) == ((x + 7) \div 8) * 8

\* ------------------------------------------------------------------------
\* ByteArray (bytearray.h) on views
\* ------------------------------------------------------------------------
View(s, n) == IF n <= 0 THEN [s |-> 0, n |-> 0] ELSE [s |-> s, n |-> n]

NoBytes == View(0, 0)

\* a left() that loses the last byte it should return
left_dropLast(ba, len) == View(ba.s, Min(len, ba.n) - 1)

\* ByteArray::left(len) == d.substr(0, len)
left(ba, len) == View(ba.s, Min(len, ba.n))

\* ByteArray::mid(pos, len) == d.substr(pos, len); len = -1 takes the rest
mid(ba, pos, len) ==
    IF len < 0 THEN View(ba.s + pos, ba.n - pos)
    ELSE View(ba.s + pos, Min(len, ba.n - pos))

\* ByteArray::right(len) == d.substr(d.size() - 1 - len, len)
right(ba, len) == View(ba.s + ba.n - 1 - len, len)

\* ------------------------------------------------------------------------
\* TreeItem / TreeModel (treemodel.cpp)
\* ------------------------------------------------------------------------
NoIndex == 0          \* the invalid ModelIndex; item 0 is rootItem

\* the parsing data of an item that has none (the fields the parser keeps
\* for volumes and files, and the memory address of the older engine)
NoParsingData ==
    [emptyByte |-> 0, ffsVersion |-> 0, revision |-> 0, hasExtendedHeader |-> FALSE,
     hasTail |-> FALSE, tail |-> NoBytes, address |-> 0,
     compressionType |-> 0, uncompressedSize |-> 0, algorithm |-> "NONE", guid |-> ""]

CREATE_MODES == {"APPEND", "PREPEND", "BEFORE", "AFTER"}

TreeItem(type, subtype, offset, header, body, tail, fixed, compressed, parent) ==
    [type |-> type, subtype |-> subtype, offset |-> offset,
     header |-> header, body |-> body, tail |-> tail,
     fixed |-> fixed, compressed |-> compressed, action |-> "NoAction",
     info |-> <<>>, pdata |-> NoParsingData, marking |-> "none", text |-> "",
     parent |-> parent]

\* TreeModel::TreeModel(): rootItem = new TreeItem(Types::Root)
EmptyModel ==
    [items |-> <<>>,
     root  |-> TreeItem("Root", "", 0, NoBytes, NoBytes, NoBytes, FALSE, FALSE, -1),
     kids  |-> [i \in {0} |-> <<>>]]

ItemIds(m) == 1..Len(m.items)

ItemAt(m, i) == IF i = 0 THEN m.root ELSE m.items[i]

\* TreeModel::fixed / TreeModel::compressed: false for an invalid index
mFixed(m, i) == IF i = NoIndex THEN FALSE ELSE m.items[i].fixed

mCompressed(m, i) == IF i = NoIndex THEN FALSE ELSE m.items[i].compressed

SetItemFixed(m, i, fixed) ==
    IF i = 0 THEN [m EXCEPT !.root.fixed = fixed]
    ELSE [m EXCEPT !.items[i].fixed = fixed]

\* TreeModel::setFixed with the boundary test the other way round: the node
\* not compressed and its parent compressed
setFixed_parentCompressed(m, index, fixed) ==
    IF index = NoIndex THEN m
    ELSE LET m1 == SetItemFixed(m, index, fixed)
             p  == m.items[index].parent
         IN IF ~fixed THEN m1
            ELSE IF ~m1.items[index].compressed /\ ItemAt(m1, p).compressed
                 THEN SetItemFixed(m1, index, ItemAt(m1, p).fixed)
                 ELSE IF ItemAt(m1, p).type # "Root"
                      THEN SetItemFixed(m1, p, fixed)
                      ELSE m1

\* TreeModel::setFixed
setFixed(m, index, fixed) ==
    IF index = NoIndex THEN m
    ELSE LET m1 == SetItemFixed(m, index, fixed)
             p  == m.items[index].parent
         IN IF ~fixed THEN m1
            ELSE IF m1.items[index].compressed /\ ~ItemAt(m1, p).compressed
                 THEN SetItemFixed(m1, index, ItemAt(m1, p).fixed)
                 ELSE IF ItemAt(m1, p).type # "Root"
                      THEN SetItemFixed(m1, p, fixed)
                      ELSE m1

\* TreeModel::setCompressed
setCompressed(m, index, c) ==
    IF index = NoIndex THEN m ELSE [m EXCEPT !.items[index].compressed = c]

InsertAt(seq, k, e) == SubSeq(seq, 1, k - 1) \o <<e>> \o SubSeq(seq, k, Len(seq))

RowOf(seq, e) == CHOOSE k \in 1..Len(seq) : seq[k] = e

\* TreeModel::addItem; rec carries the constructor arguments
addItem(m, rec, parent, mode) ==
    LET id  == Len(m.items) + 1
        par == IF parent = NoIndex THEN 0
               ELSE IF mode \in {"BEFORE", "AFTER"} THEN m.items[parent].parent
               ELSE parent
        new == [rec EXCEPT !.compressed = mCompressed(m, parent), !.parent = par]
        ks  == m.kids[par]
        ks2 == CASE mode = "APPEND"  -> Append(ks, id)
                 [] mode = "PREPEND" -> <<id>> \o ks
                 [] mode = "BEFORE"  -> InsertAt(ks, RowOf(ks, parent), id)
                 [] mode = "AFTER"   -> InsertAt(ks, RowOf(ks, parent) + 1, id)
        m1  == [m EXCEPT !.items = Append(m.items, new),
                         !.kids = [i \in 0..id |-> IF i = par THEN ks2
                                                   ELSE IF i = id THEN <<>>
                                                   ELSE m.kids[i]]]
    IN setFixed(m1, id, rec.fixed)

\* ------------------------------------------------------------------------
\* The tree model driven directly by a caller
\* ------------------------------------------------------------------------
InitTree ==
    /\ engine = "none"
    /\ image = "none"
    /\ pc = "tree"
    /\ model = EmptyModel
    /\ messages = <<>>
    /\ lastVtf = NoIndex
    /\ root = NoIndex
    /\ firstResult = "none"
    /\ result = "none"
    /\ rawLog = <<>>
    /\ loopLog = <<>>
    /\ preparseLog = <<>>
    /\ calls = 1
    /\ fitTable = <<>>
    /\ dumpResult = "none"
    /\ initialized = FALSE

TreeAddItem ==
    /\ pc = "tree"
    /\ Len(model.items) < MaxItems
    /\ \E parent \in {NoIndex} \cup ItemIds(model), fixed \in BOOLEAN, mode \in CREATE_MODES :
          /\ mode \in {"BEFORE", "AFTER"} => parent # NoIndex
          /\ model' = addItem(model,
                              TreeItem("File", "", 0, NoBytes, NoBytes, NoBytes, fixed, FALSE, 0),
                              parent, mode)
    /\ UNCHANGED <<engine, image, pc, messages, lastVtf, root, firstResult, result, rawLog, loopLog, preparseLog, calls,
                   fitTable, dumpResult, initialized>>

TreeSetFixed ==
    /\ pc = "tree"
    /\ \E i \in ItemIds(model), fixed \in BOOLEAN : model' = setFixed(model, i, fixed)
    /\ UNCHANGED <<engine, image, pc, messages, lastVtf, root, firstResult, result, rawLog, loopLog, preparseLog, calls,
                   fitTable, dumpResult, initialized>>

TreeSetCompressed ==
    /\ pc = "tree"
    /\ \E i \in ItemIds(model), c \in BOOLEAN : model' = setCompressed(model, i, c)
    /\ UNCHANGED <<engine, image, pc, messages, lastVtf, root, firstResult, result, rawLog, loopLog, preparseLog, calls,
                   fitTable, dumpResult, initialized>>

NextTree == TreeAddItem \/ TreeSetFixed \/ TreeSetCompressed

SpecTree == InitTree /\ [][NextTree]_vars

\* C2: after any sequence of addItem and setFixed calls every fixed node has
\* a fixed parent, except where the node is compressed and the parent is not.
C2_FixedForcesParent ==
    pc = "tree" =>
        \A i \in ItemIds(model) :
            LET p == model.items[i].parent
            IN (p # 0 /\ model.items[i].fixed
                  /\ ~(model.items[i].compressed /\ ~model.items[p].compressed))
               => model.items[p].fixed

\* ------------------------------------------------------------------------
\* Sizes of the on-disk structures the parser reads
\* ------------------------------------------------------------------------
sizeofCapsuleHeader == 28        \* sizeof(EFI_CAPSULE_HEADER)

sizeofVolumeHeader == 56         \* sizeof(EFI_FIRMWARE_VOLUME_HEADER)

sizeofBlockMapEntry == 8         \* sizeof(EFI_FV_BLOCK_MAP_ENTRY)

sizeofExtHeader == 20            \* sizeof(EFI_FIRMWARE_VOLUME_EXT_HEADER)

EFI_FV_SIGNATURE_OFFSET == 40

sizeofFileHeader == 24           \* sizeof(EFI_FFS_FILE_HEADER)

sizeofFileHeader2 == 32          \* sizeof(EFI_FFS_FILE_HEADER2)

sizeofSectionHeader == 4         \* sizeof(EFI_COMMON_SECTION_HEADER)

sizeofSectionHeader2 == 8        \* sizeof(EFI_COMMON_SECTION_HEADER2)

EFI_DEP_OPCODE_SIZE == 1

sizeofGuid == 16                 \* sizeof(EFI_GUID)

\* sizeof(EFI_COMPRESSION_SECTION)
sizeofCompressionSection == 5

\* sizeof(EFI_GUID_DEFINED_SECTION)
sizeofGuidDefinedSection == 20

sizeofTail == 2                  \* sizeof(UINT16)

FLASH_DESCRIPTOR_SIZE == 4096

ALIGN4(x) == ((x + 3) \div 4) * 4

\* ------------------------------------------------------------------------
\* Input images.  An image is laid out from pieces; the layout records where
\* each structure sits, which is all the parser reads.
\*   pad   n bytes of one class: "FF", "00" or "D" (data; no two distinct
\*         ranges of data bytes are equal and data holds no signature)
\*   vol   a volume header (72 bytes: header and two block-map entries)
\*         followed by its inner pieces
\*   stub  n bytes that start like a volume header and end before it does
\*   ovl   a volume header whose first `back` bytes lie before the piece
\*   file  an FFS file header followed by its inner pieces (and a tail)
\*   sec   a leaf section of n bytes, common header included; with ext its
\*         Size field is FFFFFFh and the 32-bit ExtendedSize after it is n
\*   fit   a FIT table of n bytes
\*   comp  an encapsulation section of n bytes, header included: a
\*         compression section (9-byte header, CompressionType 1) or a
\*         GUID-defined section with the Tiano GUID (24-byte header).  Its
\*         body is a packed stream; what the two decoders make of the stream
\*         is laid out in two buffers outside the image, from the pieces
\*         tiano and efi
\* ------------------------------------------------------------------------
Pad(n, c) == [k |-> "pad", n |-> n, c |-> c]

Data(n) == Pad(n, "D")

Free(n) == Pad(n, "FF")

VolX(rev, fs, hlen, extra, inner) ==
    [k |-> "vol", rev |-> rev, fs |-> fs, hlen |-> hlen, extra |-> extra, inner |-> inner]

Vol(rev, fs, inner) == VolX(rev, fs, 72, 0, inner)

Stub(n) == [k |-> "stub", n |-> n]

Ovl(back, n) == [k |-> "ovl", back |-> back, n |-> n]

File(type, guid, attrs, inner) ==
    [k |-> "file", type |-> type, guid |-> guid, attrs |-> attrs, inner |-> inner, short |-> 0]

\* a file with the LARGE_FILE attribute whose ExtendedSize is `short` bytes
\* less than the bytes the file takes
LargeFile(type, guid, short, inner) ==
    [File(type, guid, {"LARGE"}, inner) EXCEPT !.short = short]

\* a section that is no encapsulation section; bytes are the bytes of the
\* body of a DEPEX section, one element for each byte: the name of an
\* opcode, or "g" for a byte of a GUID; inner are the pieces in the body of a
\* firmware volume image section
Sec(n) ==
    [k |-> "sec", n |-> n, ext |-> FALSE, type |-> "COMPATIBILITY16", bytes |-> <<>>,
     inner |-> <<>>]

Fit(n, hdr) == [k |-> "fit", n |-> n, hdr |-> hdr, entries |-> <<>>]

Comp(type, n, tiano, efi) == [k |-> "comp", type |-> type, n |-> n, tiano |-> tiano, efi |-> efi]

PieceHeader(p) ==
    CASE p.k = "vol"  -> 72
      [] p.k = "file" -> IF "LARGE" \in p.attrs THEN sizeofFileHeader2 ELSE sizeofFileHeader
      [] OTHER        -> 0

PieceTail(p) == IF p.k = "file" /\ "TAIL" \in p.attrs THEN sizeofTail ELSE 0

RECURSIVE PiecesLen(_)
PieceLen(p) ==
    IF p.k \in {"vol", "file"}
    THEN PieceHeader(p) + PiecesLen(p.inner) + PieceTail(p)
    ELSE p.n

PiecesLen(ps) == IF ps = <<>> THEN 0 ELSE PieceLen(Head(ps)) + PiecesLen(Tail(ps))

NoContent == [fvs |-> {}, files |-> {}, secs |-> {}, runs |-> {}, fits |-> {}, packed |-> {}]

Join(a, b) ==
    [fvs |-> a.fvs \cup b.fvs, files |-> a.files \cup b.files, secs |-> a.secs \cup b.secs,
     runs |-> a.runs \cup b.runs, fits |-> a.fits \cup b.fits,
     packed |-> a.packed \cup b.packed]

FvHeader(at, len, rev, fs, hlen) ==
    [sig |-> at + EFI_FV_SIGNATURE_OFFSET, FvLength |-> len, Revision |-> rev,
     Reserved |-> 0, HeaderLength |-> hlen, ExtHeaderOffset |-> 0, ExtHeaderSize |-> 0,
     fs |-> fs, polarity |-> TRUE, bm |-> len]

RECURSIVE Lay(_, _)
LayOne(p, at) ==
    \* the fields of a section header: compression sections carry
    \* UncompressedLength and CompressionType, GUID-defined sections the GUID,
    \* DataOffset and Attributes
    LET SectionHeader(size, type, uncompressedLength) ==
            [at |-> at, Size |-> IF p.k = "sec" /\ p.ext THEN 16777215 ELSE size,
             ExtendedSize |-> size, Type |-> type,
             UncompressedLength |-> uncompressedLength,
             CompressionType |-> IF type = "COMPRESSION" THEN 1 ELSE 0,
             guid |-> IF type = "GUID_DEFINED" THEN "tiano" ELSE "",
             DataOffset |-> IF type = "GUID_DEFINED"
                            THEN sizeofSectionHeader + sizeofGuidDefinedSection ELSE 0,
             bytes |-> IF p.k = "sec" THEN p.bytes ELSE <<>>,
             processingRequired |-> type = "GUID_DEFINED"]
    IN
    CASE p.k = "pad" ->
           [NoContent EXCEPT !.runs = IF p.c = "D" THEN {}
                                      ELSE {[a |-> at, b |-> at + p.n, c |-> p.c]}]
      [] p.k = "vol" ->
           Join([NoContent EXCEPT !.fvs =
                    {FvHeader(at, PieceLen(p) + p.extra, p.rev, p.fs, p.hlen)}],
                Lay(p.inner, at + 72))
      [] p.k = "stub" ->
           [NoContent EXCEPT !.fvs = {FvHeader(at, 128, 2, "unknown", 72)}]
      [] p.k = "ovl" ->
           [NoContent EXCEPT !.fvs = {FvHeader(at - p.back, p.back + p.n, 2, "unknown", 72)}]
      [] p.k = "file" ->
           Join([NoContent EXCEPT !.files =
                    {[at |-> at, Size |-> PieceLen(p), Type |-> p.type, guid |-> p.guid,
                      attrs |-> p.attrs, ExtendedSize |-> PieceLen(p) - p.short]}],
                Lay(p.inner, at + PieceHeader(p)))
      [] p.k = "sec" ->
           Join([NoContent EXCEPT !.secs = {SectionHeader(p.n, p.type, 0)}],
                Lay(p.inner, at + sizeofSectionHeader))
      [] p.k = "comp" ->
           LET headerSize == IF p.type = "COMPRESSION"
                             THEN sizeofSectionHeader + sizeofCompressionSection
                             ELSE sizeofSectionHeader + sizeofGuidDefinedSection
               buffer(i, ps) == View(i * 65536 + at, PiecesLen(ps))
           IN Join([NoContent EXCEPT
                       !.secs = {SectionHeader(p.n, p.type, PiecesLen(p.tiano))},
                       !.packed = {[at |-> at + headerSize, n |-> p.n - headerSize,
                                    tiano |-> buffer(1, p.tiano), efi |-> buffer(2, p.efi)]}],
                   Join(Lay(p.tiano, buffer(1, p.tiano).s), Lay(p.efi, buffer(2, p.efi).s)))
      [] p.k = "fit" ->
           [NoContent EXCEPT !.fits = {[at |-> at, hdr |-> p.hdr, entries |-> p.entries]}]

Lay(ps, at) ==
    IF ps = <<>> THEN NoContent
    ELSE Join(LayOne(Head(ps), at), Lay(Tail(ps), at + PieceLen(Head(ps))))

\* A raw area is well-formed when it holds only paddings and intact FFSv2
\* volumes whose bodies hold files and free space; a file body holds
\* sections, free space (pad-file) or a well-formed raw area.
RECURSIVE WellFormed(_, _)
WellFormedPiece(p, ctx) ==
    CASE p.k = "pad"  -> ctx = "raw" \/ p.c = "FF"
      [] p.k = "vol"  -> ctx = "raw" /\ p.rev \in {1, 2} /\ p.fs = "ffs2" /\ p.hlen = 72
                         /\ p.extra = 0 /\ WellFormed(p.inner, "volume")
      [] p.k = "file" -> ctx = "volume"
                         /\ WellFormed(p.inner, IF p.type = "RAW" THEN "raw" ELSE "file")
      [] p.k = "sec"  -> ctx = "file"
      [] OTHER        -> FALSE

WellFormed(ps, ctx) == \A i \in 1..Len(ps) : WellFormedPiece(ps[i], ctx)

\* ------------------------------------------------------------------------
\* Images
\* ------------------------------------------------------------------------
NoCapsule == [kind |-> "none", HeaderSize |-> 0, CapsuleImageSize |-> 0]

NoDescriptor == [sig |-> FALSE]

\* The FIT pointer stored 64 bytes before the end of the volume top file,
\* as a 32-bit word in its two's-complement reading (the address 2^32 - k
\* is -k): it points to the FIT table when the image has one and kind is
\* "fit", and is FFFFFFFFh (erased) otherwise
PtrOf(content, kind) ==
    LET vtfs == {f \in content.files : f.guid = "vtf"}
    IN IF kind = "fit" /\ vtfs # {} /\ content.fits # {}
       THEN LET vtf == CHOOSE f \in vtfs : TRUE
                fit == CHOOSE f \in content.fits : TRUE
            IN fit.at - (vtf.at + vtf.Size)
       ELSE -1

\* A payload without flash descriptor, optionally wrapped in a capsule
UefiImageOf(pieces, capsule, ptr) ==
    [size    |-> capsule.HeaderSize + PiecesLen(pieces),
     capsule |-> capsule,
     desc    |-> NoDescriptor,
     content |-> Lay(pieces, capsule.HeaderSize),
     ptr     |-> PtrOf(Lay(pieces, capsule.HeaderSize), ptr),
     pieces  |-> pieces,
     base    |-> capsule.HeaderSize]

\* An image that starts with a flash descriptor; the pieces fill the BIOS
\* region, the ME region is erased flash and everything else is data
IntelImageOf(desc, size, biosAt, pieces, meRun) ==
    [size    |-> size,
     capsule |-> NoCapsule,
     desc    |-> desc,
     content |-> LET c == Lay(pieces, biosAt) IN [c EXCEPT !.runs = @ \cup meRun],
     ptr     |-> PtrOf(Lay(pieces, biosAt), "fit"),
     pieces  |-> pieces,
     base    |-> biosAt]

\* ------------------------------------------------------------------------
\* Reading the image through a view
\* ------------------------------------------------------------------------
MinOf(S) == CHOOSE x \in S : \A y \in S : x <= y

\* the element of a singleton set: Only({e(x) : x \in {v}}) is e(v), with v
\* computed once
Only(S) == CHOOSE x \in S : TRUE

\* the view is uniformly of byte class c ("FF" or "00")
RECURSIVE Covered(_, _, _, _)
Covered(img, s, e, c) ==
    IF s >= e THEN TRUE
    ELSE LET hit == {r \in img.content.runs : r.c = c /\ r.a <= s /\ s < r.b}
         IN hit # {} /\ Covered(img, (CHOOSE r \in hit : TRUE).b, e, c)

\* ByteArray::count(ch) == size()
AllBytes(img, ba, c) == Covered(img, ba.s, ba.s + ba.n, c)

\* offset in the view of the first byte that is not of class c (n if none)
RECURSIVE FirstNotAt(_, _, _, _)
FirstNotAt(img, s, e, c) ==
    IF s >= e THEN e
    ELSE LET hit == {r \in img.content.runs : r.c = c /\ r.a <= s /\ s < r.b}
         IN IF hit = {} THEN s ELSE FirstNotAt(img, (CHOOSE r \in hit : TRUE).b, e, c)

FirstNot(img, ba, c) == FirstNotAt(img, ba.s, ba.s + ba.n, c) - ba.s

EmptyClass(emptyByte) == IF emptyByte = 255 THEN "FF" ELSE "00"

\* ByteArray::indexOf(EFI_FV_SIGNATURE, from)
indexOfFvSignature(img, ba, from) ==
    LET hits == {f.sig - ba.s : f \in {g \in img.content.fvs :
                                   /\ g.sig >= ba.s + from
                                   /\ g.sig + 4 <= ba.s + ba.n}}
    IN IF from < 0 \/ hits = {} THEN -1 ELSE MinOf(hits)

\* the volume header whose first byte is at absolute position p
VolumeHeaderAt(img, p) ==
    CHOOSE f \in img.content.fvs : f.sig = p + EFI_FV_SIGNATURE_OFFSET

HasVolumeSignatureAt(img, p) ==
    \E f \in img.content.fvs : f.sig = p + EFI_FV_SIGNATURE_OFFSET

\* A 24-bit Size field read at absolute position p is the Size of the
\* structure laid there, 000000h inside zeroes, FFFFFFh inside erased flash
\* and, inside data, a value larger than any image of the model
HasFileAt(img, p) == \E f \in img.content.files : f.at = p

FileHeaderAt(img, p) == CHOOSE f \in img.content.files : f.at = p

HasSectionAt(img, p) == \E x \in img.content.secs : x.at = p

SectionHeaderAt(img, p) == CHOOSE x \in img.content.secs : x.at = p

\* uint24ToUint32(fileHeader->Size) read at p
FileSizeAt(img, p) ==
    IF HasFileAt(img, p) THEN FileHeaderAt(img, p).Size
    ELSE IF Covered(img, p, p + 3, "00") THEN 0
    ELSE 16777215

\* uint24ToUint32(sectionHeader->Size) read at p
SectionSizeAt(img, p) ==
    IF HasSectionAt(img, p) THEN SectionHeaderAt(img, p).Size
    ELSE IF Covered(img, p, p + 3, "00") THEN 0
    ELSE 16777215

\* FfsParser::getPaddingType
getPaddingType(img, padding) ==
    IF AllBytes(img, padding, "00") THEN "ZeroPadding"
    ELSE IF AllBytes(img, padding, "FF") THEN "OnePadding"
    ELSE "DataPadding"

\* ------------------------------------------------------------------------
\* FfsParser: the parser state threaded through the calls.  For the engine
\* of common/ffsparser.cpp the field `offset` of a tree item stands for
\* PARSING_DATA.offset, which that engine keeps inside the parsing data.
\* Of the messages only those the properties below read are recorded with
\* their own text; checksum and alignment warnings are left out.
\* ------------------------------------------------------------------------
ParserState(eng, img) ==
    [eng |-> eng, img |-> img, m |-> EmptyModel, msgs |-> <<>>, lastVtf |-> NoIndex,
     log |-> <<>>, ret |-> "SUCCESS", idx |-> NoIndex, fitTable |-> <<>>,
     reserved4type |-> "Reserved4Region",
     bgAcmFound |-> FALSE, bgKeyManifestFound |-> FALSE, bgBootPolicyFound |-> FALSE,
     bgKmHash |-> <<>>, bgBpHash |-> <<>>, steps |-> <<>>, preparses |-> <<>>]

\* the entry into a parsing loop (at = -1) and one iteration of it at an offset
visited(st, loop, index, at) ==
    [st EXCEPT !.steps = Append(@, [loop |-> loop, index |-> index, at |-> at])]

\* FfsParser::msg
msg(st, text, index) == [st EXCEPT !.msgs = Append(@, [text |-> text, index |-> index])]

Ret(st, code) == [st EXCEPT !.ret = code]

\* model->addItem(offset, type, subtype, ..., header, body, tail, fixed, parent)
AddNode(st, offset, type, subtype, header, body, tail, fixed, parent) ==
    LET m2 == addItem(st.m, TreeItem(type, subtype, offset, header, body, tail,
                                     fixed, FALSE, 0), parent, "APPEND")
    IN [st EXCEPT !.m = m2, !.idx = Len(m2.items)]

\* model->setParsingData
setParsingData(st, index, pdata) == [st EXCEPT !.m.items[index].pdata = pdata]

\* model->addInfo(index, info, append)
addInfo(m, index, info, append) ==
    [m EXCEPT !.items[index].info = IF append THEN Append(@, info) ELSE <<info>> \o @]

ItemSize(it) == it.header.n + it.body.n + it.tail.n

\* FfsParser::msg on the item that addItem has just returned
msgAdded(st, text) == msg(st, text, st.idx)

\* FfsParser::findNextVolume: the loop over the signature hits
RECURSIVE findNextVolumeLoop(_, _, _, _)
findNextVolumeLoop(st, index, bios, nextIndex) ==
    IF nextIndex <= 0 THEN [st |-> st, nextIndex |-> nextIndex]
    ELSE LET \* FvLength >= FFFFFFFFh is the other half of the first test; the
             \* lengths of the model stay below 2^31
             invalid(volumeHeader) ==
                 IF volumeHeader.FvLength < sizeofVolumeHeader + 2 * sizeofBlockMapEntry
                 THEN "findNextVolume: invalid FvLength"
                 ELSE IF st.eng = "common" /\ volumeHeader.Reserved \notin {0, 255}
                 THEN "findNextVolume: invalid Reserved byte"
                 ELSE IF volumeHeader.Revision \notin {1, 2}
                 THEN "findNextVolume: invalid Revision byte"
                 ELSE ""
             seen == visited(st, "findNextVolume", index, nextIndex)
             step(text) ==
                 IF text = "" THEN [st |-> seen, nextIndex |-> nextIndex]
                 ELSE findNextVolumeLoop(msg(seen, text, index), index, bios,
                                         indexOfFvSignature(st.img, bios, nextIndex + 1))
         IN step(invalid(VolumeHeaderAt(st.img,
                                        bios.s + nextIndex - EFI_FV_SIGNATURE_OFFSET)))

\* FfsParser::findNextVolume; next is meaningful only when ret is SUCCESS
findNextVolume(st, index, bios, volumeOffset) ==
    LET found(r) ==
            IF r.nextIndex < EFI_FV_SIGNATURE_OFFSET
            THEN [st |-> r.st, ret |-> "VOLUMES_NOT_FOUND", next |-> 0]
            ELSE [st |-> r.st, ret |-> "SUCCESS",
                  next |-> r.nextIndex - EFI_FV_SIGNATURE_OFFSET]
        from(first) ==
            IF first < EFI_FV_SIGNATURE_OFFSET
            THEN [st |-> st, ret |-> "VOLUMES_NOT_FOUND", next |-> 0]
            ELSE found(findNextVolumeLoop(visited(st, "findNextVolume", index, -1), index, bios,
                                          first))
    IN from(indexOfFvSignature(st.img, bios, volumeOffset))

\* FfsParser::getVolumeSize
getVolumeSize(img, bios, volumeOffset) ==
    LET sized(volumeHeader) ==
            [ret |-> IF volumeHeader.FvLength = 0 THEN "INVALID_VOLUME" ELSE "SUCCESS",
             volumeSize |-> volumeHeader.FvLength, bmVolumeSize |-> volumeHeader.bm]
    IN IF bios.n < volumeOffset + sizeofVolumeHeader + 2 * sizeofBlockMapEntry
       THEN [ret |-> "INVALID_VOLUME", volumeSize |-> 0, bmVolumeSize |-> 0]
       ELSE IF ~HasVolumeSignatureAt(img, bios.s + volumeOffset)
       THEN [ret |-> "INVALID_VOLUME", volumeSize |-> 0, bmVolumeSize |-> 0]
       ELSE sized(VolumeHeaderAt(img, bios.s + volumeOffset))

\* FfsParser::parseVolumeHeader: the check of HeaderLength against the bytes
\* of the volume
headerOverlaps_atEnd(volumeHeader, volume) ==
    ALIGN8(volumeHeader.HeaderLength) >= volume.n

headerOverlaps(volumeHeader, volume) ==
    ALIGN8(volumeHeader.HeaderLength) > volume.n

\* FfsParser::parseVolumeHeader
parseVolumeHeader(st, volume, localOffset, parent) ==
    LET parsed(volumeHeader) ==
            LET hasExtendedHeader ==
                    volumeHeader.Revision > 1 /\ volumeHeader.ExtHeaderOffset # 0
                headerSize == ALIGN8(IF hasExtendedHeader
                                     THEN volumeHeader.ExtHeaderOffset
                                          + volumeHeader.ExtHeaderSize
                                     ELSE volumeHeader.HeaderLength)
                ffsVersion == CASE volumeHeader.fs = "ffs2" -> 2
                                [] volumeHeader.fs = "ffs3" -> 3
                                [] OTHER -> 0
                subtype    == CASE volumeHeader.fs = "ffs2" -> "Ffs2Volume"
                                [] volumeHeader.fs = "ffs3" -> "Ffs3Volume"
                                [] OTHER -> "UnknownVolume"
                withData(s) ==
                    setParsingData(s, s.idx,
                        [NoParsingData EXCEPT
                            !.emptyByte = IF volumeHeader.polarity THEN 255 ELSE 0,
                            !.ffsVersion = ffsVersion,
                            !.revision = volumeHeader.Revision,
                            !.hasExtendedHeader = hasExtendedHeader])
                known(s) ==
                    IF volumeHeader.fs \notin {"ffs2", "ffs3"}
                    THEN msgAdded(s, "parseVolumeHeader: unknown file system") ELSE s
            IN IF headerOverlaps(volumeHeader, volume)
               THEN Ret(msg(st, "parseVolumeHeader: volume header overlaps the end of data",
                            NoIndex), "INVALID_VOLUME")
               ELSE IF hasExtendedHeader
                       /\ ALIGN8(volumeHeader.ExtHeaderOffset + sizeofExtHeader) > volume.n
               THEN Ret(msg(st, "parseVolumeHeader: extended volume header overlaps the end of data",
                            NoIndex), "INVALID_VOLUME")
               ELSE Ret(known(withData(AddNode(st, st.m.items[parent].offset + localOffset,
                                               "Volume", subtype, left(volume, headerSize),
                                               mid(volume, headerSize, -1), NoBytes, TRUE,
                                               parent))),
                        "SUCCESS")
    IN IF volume.n = 0 THEN Ret(st, "INVALID_PARAMETER")
       ELSE IF volume.n < sizeofVolumeHeader
       THEN Ret(msg(st, "parseVolumeHeader: input volume size is smaller than volume header size",
                    NoIndex), "INVALID_VOLUME")
       ELSE parsed(VolumeHeaderAt(st.img, volume.s))

\* TreeModel::findParentOfType: the item itself is the first candidate
RECURSIVE findParentOfType(_, _, _)
findParentOfType(m, index, type) ==
    IF index <= 0 THEN NoIndex
    ELSE IF m.items[index].type = type THEN index
    ELSE findParentOfType(m, m.items[index].parent, type)

\* FfsParser::getFileSize.  Where no file header lies, the attributes and
\* the sizes are read from erased flash (LARGE_FILE is set and ExtendedSize
\* is FFFFFFFFh), from zeroes or from data, and ExtendedSize falls into the
\* same class as Size does.
getFileSize_sizeOnly(img, volume, fileOffset, ffsVersion) ==
    IF ffsVersion = 2
    THEN IF volume.n < fileOffset + sizeofFileHeader THEN 0
         ELSE FileSizeAt(img, volume.s + fileOffset)
    ELSE IF ffsVersion = 3
    THEN IF volume.n < fileOffset + sizeofFileHeader2 THEN 0
         ELSE FileSizeAt(img, volume.s + fileOffset)
    ELSE 0

getFileSize(img, volume, fileOffset, ffsVersion) ==
    IF ffsVersion = 2
    THEN IF volume.n < fileOffset + sizeofFileHeader THEN 0
         ELSE FileSizeAt(img, volume.s + fileOffset)
    ELSE IF ffsVersion = 3
    THEN IF volume.n < fileOffset + sizeofFileHeader2 THEN 0
         ELSE IF HasFileAt(img, volume.s + fileOffset)
                 /\ "LARGE" \in FileHeaderAt(img, volume.s + fileOffset).attrs
         THEN FileHeaderAt(img, volume.s + fileOffset).ExtendedSize
         ELSE FileSizeAt(img, volume.s + fileOffset)
    ELSE 0

\* FfsParser::getSectionSize.  Where no section header lies, ExtendedSize
\* falls into the same class as Size does.
getSectionSize(img, file, sectionOffset, ffsVersion) ==
    IF ffsVersion = 2
    THEN IF file.n < sectionOffset + sizeofSectionHeader THEN 0
         ELSE SectionSizeAt(img, file.s + sectionOffset)
    ELSE IF ffsVersion = 3
    THEN IF file.n < sectionOffset + sizeofSectionHeader2 THEN 0
         ELSE IF HasSectionAt(img, file.s + sectionOffset)
                 /\ SectionSizeAt(img, file.s + sectionOffset) = 16777215
         THEN SectionHeaderAt(img, file.s + sectionOffset).ExtendedSize
         ELSE SectionSizeAt(img, file.s + sectionOffset)
    ELSE 0

\* a parser that keeps the first volume top file it meets
overrideLastVtf_keepFirst(s, isVtf) ==
    IF isVtf /\ s.lastVtf = NoIndex THEN [s EXCEPT !.lastVtf = s.idx] ELSE s

\* FfsParser::parseFileHeader: if (isVtf) lastVtf = index
overrideLastVtf(s, isVtf) ==
    IF isVtf THEN [s EXCEPT !.lastVtf = s.idx] ELSE s

\* FfsParser::parseFileHeader
parseFileHeader(st, file, localOffset, parent) ==
    LET volumeData(parentVolumeIndex) ==
            IF parentVolumeIndex # NoIndex
            THEN st.m.items[parentVolumeIndex].pdata
            ELSE [NoParsingData EXCEPT !.emptyByte = 255, !.ffsVersion = 2, !.revision = 2]
        parsed(vdata, fileHeader) ==
            LET large   == vdata.ffsVersion = 3 /\ "LARGE" \in fileHeader.attrs
                header  == left(file, IF large THEN sizeofFileHeader2 ELSE sizeofFileHeader)
                body0   == mid(file, header.n, -1)
                hasTail == vdata.revision = 1 /\ "TAIL" \in fileHeader.attrs
                tail    == IF hasTail THEN right(body0, sizeofTail) ELSE NoBytes
                body    == IF hasTail THEN left(body0, body0.n - sizeofTail) ELSE body0
                withData(s) ==
                    setParsingData(s, s.idx,
                        [NoParsingData EXCEPT
                            !.emptyByte = IF st.eng = "common" THEN vdata.emptyByte ELSE 255,
                            !.ffsVersion = vdata.ffsVersion, !.revision = vdata.revision,
                            !.hasTail = hasTail, !.tail = tail])
                lastVtfOf(s) == overrideLastVtf(s, fileHeader.guid = "vtf")
            IN IF large /\ file.n < sizeofFileHeader2 THEN Ret(st, "INVALID_FILE")
               ELSE Ret(lastVtfOf(withData(
                            AddNode(st, st.m.items[parent].offset + localOffset, "File",
                                    fileHeader.Type, header, body,
                                    IF st.eng = "common" THEN NoBytes ELSE tail,
                                    "FIXED" \in fileHeader.attrs, parent))),
                        "SUCCESS")
    IN IF file.n = 0 THEN Ret(st, "INVALID_PARAMETER")
       ELSE IF file.n < sizeofFileHeader THEN Ret(st, "INVALID_FILE")
       ELSE parsed(volumeData(findParentOfType(st.m, parent, "Volume")),
                   FileHeaderAt(st.img, file.s))

\* FfsParser::parsePadFileBody
parsePadFileBody(st, index) ==
    LET it    == st.m.items[index]
        body  == it.body
        empty == EmptyClass(it.pdata.emptyByte)
        split(first) ==
            LET i == IF first >= 8
                     THEN (IF first # ALIGN8(first) THEN ALIGN8(first) - 8 ELSE first)
                     ELSE 0
                \* common engine: pdata.offset += header.size() only when free space
                \* is added
                base == IF st.eng = "common"
                        THEN it.offset + (IF first >= 8 THEN it.header.n ELSE 0)
                        ELSE it.offset + it.header.n
                padded(s) == AddNode(s, base + i, "Padding", "DataPadding", NoBytes,
                                     mid(body, i, -1), NoBytes, TRUE, index)
            IN Ret(msgAdded(padded(IF first >= 8
                                   THEN AddNode(st, it.offset + it.header.n, "FreeSpace", "",
                                                NoBytes, left(body, i), NoBytes, FALSE, index)
                                   ELSE st),
                            "parsePadFileBody: non-UEFI data found in pad-file"),
                   "SUCCESS")
    IN IF AllBytes(st.img, body, empty) THEN Ret(st, "SUCCESS")
       ELSE split(FirstNot(st.img, body, empty))

\* decompress(compressed, compressionType): the decoders.  A stream of the
\* standard compression comes back undecided between Tiano and EFI 1.1,
\* with what each decoder makes of it; bytes that are no packed stream, and
\* the compression types the model's images do not use, are an error
decompress(img, compressed, compressionType) ==
    LET streams == {x \in img.content.packed : x.at = compressed.s /\ x.n = compressed.n}
        stream  == CHOOSE x \in streams : TRUE
    IN IF compressionType = 0
       THEN [ret |-> "SUCCESS", algorithm |-> "NONE", decompressed |-> compressed,
             efiDecompressed |-> NoBytes]
       ELSE IF compressionType = 1 /\ streams # {}
       THEN [ret |-> "SUCCESS", algorithm |-> "UNDECIDED", decompressed |-> stream.tiano,
             efiDecompressed |-> stream.efi]
       ELSE [ret |-> "STANDARD_DECOMPRESSION_FAILED", algorithm |-> "NONE",
             decompressed |-> NoBytes, efiDecompressed |-> NoBytes]

\* compressionTypeToUString
compressionTypeToUString(algorithm) ==
    CASE algorithm = "NONE"      -> "None"
      [] algorithm = "EFI11"     -> "EFI 1.1"
      [] algorithm = "TIANO"     -> "Tiano"
      [] algorithm = "UNDECIDED" -> "Undecided Tiano/EFI 1.1"

\* the end of every section header parser: if (insertIntoTree) { index =
\* model->addItem(...); ... }; added is the parser after the insertion
insertSection_always(st, added, insertIntoTree) == added

insertSection(st, added, insertIntoTree) == IF insertIntoTree THEN added ELSE st

\* FfsParser::parseSectionHeader with the header parsers it dispatches to:
\* parseCommonSectionHeader, parseCompressedSectionHeader and
\* parseGuidedSectionHeader.  The version of the volume: the older engine
\* reads it from the parsing data the parent inherited from its volume;
\* part_003 asks findParentOfType for the volume above `index`, the result
\* parameter, which is still the invalid index, and so keeps version 2.  No
\* section of the model's images carries the Apple mark.
parseSectionHeader(st, section, localOffset, parent, insertIntoTree) ==
    LET sectionHeader == SectionHeaderAt(st.img, section.s)
        index == NoIndex
        versionOf(vol) == IF vol # NoIndex THEN st.m.items[vol].pdata.ffsVersion ELSE 2
        ffsVersion == versionOf(findParentOfType(st.m,
                                                 IF st.eng = "common" THEN parent ELSE index,
                                                 "Volume"))
        commonHeaderSize == IF ffsVersion = 3 /\ sectionHeader.Size = 16777215
                            THEN sizeofSectionHeader2 ELSE sizeofSectionHeader
        withData(s, pdata) == setParsingData(s, s.idx, pdata)
        added(headerSize, pdata) ==
            withData(AddNode(st, st.m.items[parent].offset + localOffset, "Section",
                             sectionHeader.Type, left(section, headerSize),
                             mid(section, headerSize, -1), NoBytes, FALSE, parent),
                     pdata)
        common ==
            IF section.n < commonHeaderSize /\ st.eng # "common"
            THEN Ret(st, "INVALID_SECTION")
            ELSE Ret(insertSection(st, added(commonHeaderSize, NoParsingData), insertIntoTree),
                     "SUCCESS")
        compressed ==
            IF section.n < sizeofSectionHeader + sizeofCompressionSection
            THEN Ret(st, "INVALID_SECTION")
            ELSE Ret(insertSection(st,
                                   added(sizeofSectionHeader + sizeofCompressionSection,
                                         [NoParsingData EXCEPT
                                             !.compressionType = sectionHeader.CompressionType,
                                             !.uncompressedSize =
                                                 sectionHeader.UncompressedLength]),
                                   insertIntoTree),
                     "SUCCESS")
        unprocessed(s) ==
            IF ~sectionHeader.processingRequired
            THEN msgAdded(s, "parseGuidedSectionHeader: compressed GUIDed section without ProcessingRequired attribute")
            ELSE s
        guided ==
            IF section.n < sizeofSectionHeader + sizeofGuidDefinedSection
            THEN Ret(st, "INVALID_SECTION")
            ELSE Ret(insertSection(st,
                                   unprocessed(added(sectionHeader.DataOffset,
                                                     [NoParsingData EXCEPT
                                                         !.guid = sectionHeader.guid])),
                                   insertIntoTree),
                     "SUCCESS")
    IN IF section.n < sizeofSectionHeader THEN Ret(st, "INVALID_SECTION")
       ELSE CASE sectionHeader.Type = "COMPRESSION"  -> compressed
              [] sectionHeader.Type = "GUID_DEFINED" -> guided
              [] OTHER                               -> common

\* FfsParser::parseSections: the loop over the sections of a body.  The
\* result's ret is INVALID_SECTION when the preparse ended on a bad section.
RECURSIVE parseSectionsLoop(_, _, _, _, _)
parseSectionsLoop(st0, sections, index, sectionOffset, insertIntoTree) ==
    LET st         == visited(st0, "parseSections", index, sectionOffset)
        headerSize == st.m.items[index].header.n
        versionOf(vol) == IF vol # NoIndex THEN st.m.items[vol].pdata.ffsVersion ELSE 2
        checked(s) ==
            IF s.ret # "SUCCESS"
            THEN msg(s, "parseSections: section header parsing failed", index) ELSE s
        next(s, sectionSize) ==
            IF s.ret # "SUCCESS" /\ ~insertIntoTree THEN Ret(s, "INVALID_SECTION")
            ELSE parseSectionsLoop(checked(s), sections, index,
                                   ALIGN4(sectionOffset + sectionSize), insertIntoTree)
        step(sectionSize) ==
            IF sectionSize < sizeofSectionHeader \/ sectionSize > sections.n - sectionOffset
            THEN IF insertIntoTree
                 THEN Ret(msgAdded(AddNode(st, st.m.items[index].offset + headerSize
                                               + sectionOffset,
                                           "Padding", "DataPadding", NoBytes,
                                           mid(sections, sectionOffset, -1), NoBytes, TRUE,
                                           index),
                                   "parseSections: non-UEFI data found in sections area"),
                          "SUCCESS")
                 ELSE Ret(st, "INVALID_SECTION")
            ELSE next(parseSectionHeader(st, mid(sections, sectionOffset, sectionSize),
                                         headerSize + sectionOffset, index, insertIntoTree),
                      sectionSize)
    IN IF sectionOffset >= sections.n THEN Ret(st0, "SUCCESS")
       ELSE step(getSectionSize(st.img, sections, sectionOffset,
                                versionOf(findParentOfType(st.m, index, "Volume"))))

RECURSIVE parseSections(_, _, _, _)
RECURSIVE parseRawArea(_, _)

\* the choice between the two decoders' outputs in parseCompressedSectionBody
\* and parseGuidedSectionBody (named by who): tiano and efi are what the
\* preparse of each output returned
guessAlgorithm_efiFirst(tiano, efi, d, index, who) ==
    IF efi.ret = "SUCCESS"
    THEN [st |-> efi, algorithm |-> "EFI11", decompressed |-> d.efiDecompressed]
    ELSE IF tiano.ret = "SUCCESS"
    THEN [st |-> tiano, algorithm |-> "TIANO", decompressed |-> d.decompressed]
    ELSE [st |-> msg(efi, who, index), algorithm |-> "UNDECIDED",
          decompressed |-> d.decompressed]

guessAlgorithm(tiano, efi, d, index, who) ==
    IF tiano.ret = "SUCCESS"
    THEN [st |-> tiano, algorithm |-> "TIANO", decompressed |-> d.decompressed]
    ELSE IF efi.ret = "SUCCESS"
    THEN [st |-> efi, algorithm |-> "EFI11", decompressed |-> d.efiDecompressed]
    ELSE [st |-> msg(efi, who, index), algorithm |-> "UNDECIDED",
          decompressed |-> d.decompressed]

\* FfsParser::parseCompressedSectionBody
parseCompressedSectionBody(st, index) ==
    LET it == st.m.items[index]
        d  == decompress(st.img, it.body, it.pdata.compressionType)
        sized(s) ==
            IF it.pdata.uncompressedSize # d.decompressed.n
            THEN [msg(s, "parseCompressedSectionBody: decompressed size stored in header differs from actual",
                      index)
                  EXCEPT !.m = addInfo(@, index, [k |-> "Actual decompressed size",
                                                     v |-> d.decompressed.n], TRUE)]
            ELSE s
        recorded(g) ==
            [g.st EXCEPT !.m =
                LET m1 == addInfo(@, index, [k |-> "Compression algorithm",
                                            v |-> compressionTypeToUString(g.algorithm)],
                              TRUE)
                    m2 == [m1 EXCEPT !.items[index].pdata.algorithm = g.algorithm]
                IN IF g.algorithm # "NONE" THEN setCompressed(m2, index, TRUE) ELSE m2]
    IN IF index = NoIndex THEN Ret(st, "INVALID_PARAMETER")
       ELSE IF d.ret # "SUCCESS"
       THEN Ret(msg(st, "parseCompressedSectionBody: decompression failed", index), "SUCCESS")
       ELSE Only({parseSections(recorded(g), g.decompressed, index, TRUE) :
                  g \in {IF d.algorithm # "UNDECIDED"
                         THEN [st |-> sized(st), algorithm |-> d.algorithm,
                               decompressed |-> d.decompressed]
                         ELSE Only({guessAlgorithm(
                                        tiano,
                                        parseSections(tiano, d.efiDecompressed, index, FALSE),
                                        d, index,
                                        "parseCompressedSectionBody: can't guess the correct decompression algorithm, both preparse steps are failed") :
                                    tiano \in {parseSections(sized(st), d.decompressed, index,
                                                             FALSE)}})}})

\* FfsParser::parseGuidedSectionBody, for the GUIDs of the model's images
parseGuidedSectionBody(st, index) ==
    LET it == st.m.items[index]
        d  == decompress(st.img, it.body, 1)
        \* the older engine goes on to parse the Tiano output when both
        \* preparse steps failed
        parseCurrentSection(g) == g.algorithm # "UNDECIDED" \/ st.eng = "common"
        recorded(g) ==
            [g.st EXCEPT !.m =
                LET m1 == addInfo(@, index, [k |-> "Compression algorithm",
                                            v |-> compressionTypeToUString(g.algorithm)],
                              TRUE)
                IN IF g.algorithm # "NONE" THEN setCompressed(m1, index, TRUE) ELSE m1]
    IN IF index = NoIndex THEN Ret(st, "INVALID_PARAMETER")
       ELSE IF it.pdata.guid # "tiano" THEN parseSections(st, it.body, index, TRUE)
       ELSE IF d.ret # "SUCCESS"
       THEN Ret(msg(st, "parseGuidedSectionBody: decompression failed", index), "SUCCESS")
       ELSE Only({IF parseCurrentSection(g)
                  THEN parseSections(recorded(g), g.decompressed, index, TRUE)
                  ELSE Ret(msg(recorded(g),
                               "parseGuidedSectionBody: GUID defined section can not be processed",
                               index), "SUCCESS") :
                  g \in {IF d.algorithm # "UNDECIDED"
                         THEN [st |-> st, algorithm |-> d.algorithm,
                               decompressed |-> d.decompressed]
                         ELSE Only({guessAlgorithm(
                                        tiano,
                                        parseSections(tiano, d.efiDecompressed, index, FALSE),
                                        d, index,
                                        "parseGuidedSectionBody: can't guess the correct decompression algorithm, both preparse steps are failed") :
                                    tiano \in {parseSections(st, d.decompressed, index,
                                                             FALSE)}})}})

\* FfsParser::parseDepexSectionBody: the loop "Parse the rest of depex";
\* current counts the bytes of the body that were read
RECURSIVE parseDepexOpcodes(_, _, _, _, _)
parseDepexOpcodes(st, index, body, current, parsed) ==
    LET opcode == body[current + 1]
        said(text) == Ret(msg(st, text, index), "SUCCESS")
    IN IF current >= Len(body)
       THEN Ret([st EXCEPT !.m = addInfo(@, index, [k |-> "Parsed expression",
                                                    v |-> parsed], TRUE)],
                "SUCCESS")
       ELSE CASE opcode = "BEFORE" ->
                    said("parseDepexSectionBody: misplaced BEFORE opcode")
              [] opcode = "AFTER" ->
                    said("parseDepexSectionBody: misplaced AFTER opcode")
              [] opcode = "SOR" ->
                    said("parseDepexSectionBody: misplaced SOR opcode")
              [] opcode = "PUSH" ->
                    IF Len(body) - current <= EFI_DEP_OPCODE_SIZE + sizeofGuid
                    THEN said("parseDepexSectionBody: remains of DEPEX section too short for PUSH opcode")
                    ELSE parseDepexOpcodes(st, index, body,
                                           current + EFI_DEP_OPCODE_SIZE + sizeofGuid,
                                           Append(parsed, "PUSH guid"))
              [] opcode \in {"AND", "OR", "NOT", "TRUE", "FALSE"} ->
                    parseDepexOpcodes(st, index, body, current + EFI_DEP_OPCODE_SIZE,
                                      Append(parsed, opcode))
              [] opcode = "END" ->
                    \* Check that END is the last opcode
                    IF current + EFI_DEP_OPCODE_SIZE < Len(body)
                    THEN parseDepexOpcodes(
                            msg(st, "parseDepexSectionBody: DEPEX section ends with non-END opcode",
                                index),
                            index, body, current + EFI_DEP_OPCODE_SIZE, <<>>)
                    ELSE parseDepexOpcodes(st, index, body, current + EFI_DEP_OPCODE_SIZE,
                                           Append(parsed, "END"))
              [] OTHER ->
                    said("parseDepexSectionBody: unknown opcode")

\* FfsParser::parseDepexSectionBody
parseDepexSectionBody(st, index) ==
    LET body == SectionHeaderAt(st.img, st.m.items[index].header.s).bytes
        said(text) == Ret(msg(st, text, index), "SUCCESS")
        \* a body that starts with BEFORE or AFTER
        single(name) ==
            IF Len(body) # 2 * EFI_DEP_OPCODE_SIZE + sizeofGuid
            THEN said("parseDepexSectionBody: DEPEX section too long for a section starting with "
                      \o name \o " opcode")
            ELSE IF body[EFI_DEP_OPCODE_SIZE + sizeofGuid + 1] # "END"
            THEN said("parseDepexSectionBody: DEPEX section ends with non-END opcode")
            ELSE Ret(st, "SUCCESS")
    IN IF index = NoIndex THEN Ret(st, "INVALID_PARAMETER")
       ELSE IF Len(body) < 2
       THEN Ret(msg(st, "parseDepexSectionBody: DEPEX section too short", index),
                "DEPEX_PARSE_FAILED")
       ELSE CASE body[1] = "BEFORE" -> single("BEFORE")
              [] body[1] = "AFTER"  -> single("AFTER")
              [] body[1] = "SOR" ->
                    IF Len(body) <= 2 * EFI_DEP_OPCODE_SIZE
                    THEN said("parseDepexSectionBody: DEPEX section too short for a section starting with SOR opcode")
                    ELSE parseDepexOpcodes(st, index, body, EFI_DEP_OPCODE_SIZE, <<"SOR">>)
              [] OTHER -> parseDepexOpcodes(st, index, body, 0, <<>>)

\* FfsParser::parseSectionBody; the other section types of the model's images
\* are leaves
parseSectionBody(st, index) ==
    LET it == st.m.items[index]
    IN IF index = NoIndex THEN Ret(st, "INVALID_PARAMETER")
       ELSE IF it.header.n < sizeofSectionHeader THEN Ret(st, "INVALID_SECTION")
       ELSE CASE it.subtype = "COMPRESSION"  -> parseCompressedSectionBody(st, index)
              [] it.subtype = "GUID_DEFINED" -> parseGuidedSectionBody(st, index)
              [] it.subtype = "DXE_DEPEX"    -> parseDepexSectionBody(st, index)
              [] it.subtype = "FIRMWARE_VOLUME_IMAGE" -> parseRawArea(st, index)
              [] OTHER                       -> Ret(st, "SUCCESS")

\* FfsParser::parseSections: the loop over the children that parses their
\* bodies; nothing is done after a preparse that ended on a bad section
RECURSIVE parseSectionBodies(_, _)
parseSectionBodies(st, kids) ==
    IF st.ret = "INVALID_SECTION" \/ kids = <<>> THEN st
    ELSE LET t == st.m.items[Head(kids)].type
         IN IF t = "Section"
            THEN parseSectionBodies(Ret(parseSectionBody(st, Head(kids)), "SUCCESS"),
                                    Tail(kids))
            ELSE IF t = "Padding" THEN parseSectionBodies(st, Tail(kids))
            ELSE Ret(st, "UNKNOWN_ITEM_TYPE")

\* one record of preparseLog: the item whose body was walked, the value the
\* walk returned, the tree before the walk and the tree after it
preparsed(st, walked, index, insertIntoTree) ==
    IF insertIntoTree THEN walked
    ELSE [walked EXCEPT !.preparses = Append(@, [index |-> index, ret |-> walked.ret,
                                                 before |-> st.m, after |-> walked.m])]

\* FfsParser::parseSections
parseSections(st, sections, index, insertIntoTree) ==
    Only({preparsed(st, parseSectionBodies(s, s.m.kids[index]), index, insertIntoTree) :
          s \in {parseSectionsLoop(visited(st, "parseSections", index, -1), sections, index, 0,
                                   insertIntoTree)}})

\* parseRawArea(index) for the index that addItem has just returned
parseRawAreaAdded(st) == parseRawArea(st, st.idx)

\* ByteArray::lastIndexOf(EFI_FFS_VOLUME_TOP_FILE_GUID): rfind(ba, 0) matches
\* only at the start of the data
lastIndexOfVtfGuid(img, data) ==
    IF data.n >= 16 /\ HasFileAt(img, data.s) /\ FileHeaderAt(img, data.s).guid = "vtf"
    THEN 0 ELSE -1

\* FfsParser::parseVolumeNonUefiData
parseVolumeNonUefiData(st, data, localOffset, index) ==
    LET base     == st.m.items[index].offset + localOffset
        found    == lastIndexOfVtfGuid(st.img, data)
        vtf0     == IF found >= 0 THEN mid(data, found, -1) ELSE NoBytes
        vtfIndex == IF found >= 0 /\ vtf0.n < sizeofFileHeader THEN -1 ELSE found
        vtf      == IF vtfIndex >= 0 THEN vtf0 ELSE NoBytes
        padded(s, at, padding) ==
            msgAdded(AddNode(s, base + at, "Padding", "DataPadding", NoBytes, padding,
                             NoBytes, TRUE, index),
                     "parseVolumeNonUefiData: non-UEFI data found in volume's free space")
        header(s) ==
            IF s.ret = "SUCCESS" THEN s
            ELSE Ret(padded(msg(s, "parseVolumeNonUefiData: VTF file header parsing failed",
                                index),
                            vtfIndex, vtf),
                     "SUCCESS")
    IN IF st.eng = "part003" THEN parseRawAreaAdded(padded(st, 0, data))
       ELSE IF vtfIndex < 0 THEN Ret(padded(st, 0, data), "SUCCESS")
       ELSE header(parseFileHeader(padded(st, 0, left(data, vtfIndex)), vtf,
                                   localOffset + vtfIndex, index))

\* FfsParser::parseFileBody
parseFileBody(st, index) ==
    LET it == st.m.items[index]
    IN IF it.type # "File" THEN Ret(st, "SUCCESS")
       ELSE IF it.subtype = "PAD" THEN parsePadFileBody(st, index)
       ELSE IF it.subtype \in {"RAW", "ALL"} THEN parseRawArea(st, index)
       ELSE parseSections(st, it.body, index, TRUE)

\* FfsParser::parseVolumeBody: the loop that walks the files
RECURSIVE parseVolumeFiles(_, _, _)
parseVolumeFiles(st0, index, fileOffset) ==
    LET st               == visited(st0, "parseVolumeBody", index, fileOffset)
        it               == st.m.items[index]
        volumeBody       == it.body
        volumeHeaderSize == it.header.n
        empty            == EmptyClass(it.pdata.emptyByte)
        fileSize         == getFileSize(st.img, volumeBody, fileOffset, it.pdata.ffsVersion)
        freeSpace        == mid(volumeBody, fileOffset, -1)
        first            == FirstNot(st.img, freeSpace, empty)
        \* the free space ends at the first non-empty byte, aligned down to 8
        i                == IF first # ALIGN8(first) THEN ALIGN8(first) - 8 ELSE first
        free(space) ==
            AddNode(st, it.offset + volumeHeaderSize + fileOffset, "FreeSpace", "", NoBytes,
                    space, NoBytes, FALSE, index)
        checked(s) ==
            IF s.ret # "SUCCESS"
            THEN msg(s, "parseVolumeBody: file header parsing failed", index) ELSE s
    IN IF fileOffset >= volumeBody.n THEN st0
       ELSE IF fileSize < sizeofFileHeader \/ fileSize > volumeBody.n - fileOffset
       THEN IF AllBytes(st.img, mid(volumeBody, fileOffset, sizeofFileHeader), empty)
            THEN IF ~AllBytes(st.img, freeSpace, empty)
                 THEN parseVolumeNonUefiData(IF i > 0 THEN free(left(freeSpace, i)) ELSE st,
                                             mid(freeSpace, i, -1),
                                             volumeHeaderSize + fileOffset + i, index)
                 ELSE free(freeSpace)
            ELSE parseVolumeNonUefiData(st, mid(volumeBody, fileOffset, -1),
                                        volumeHeaderSize + fileOffset, index)
       ELSE parseVolumeFiles(
                checked(parseFileHeader(st, mid(volumeBody, fileOffset, fileSize),
                                        volumeHeaderSize + fileOffset, index)),
                index, ALIGN8(fileOffset + fileSize))

\* the loops over the children that parse their bodies
RECURSIVE parseFileBodies(_, _)
parseFileBodies(st, kids) ==
    IF kids = <<>> THEN Ret(st, "SUCCESS")
    ELSE LET t == st.m.items[Head(kids)].type
         IN IF t = "File" THEN parseFileBodies(parseFileBody(st, Head(kids)), Tail(kids))
            ELSE IF t \in {"Padding", "FreeSpace"} THEN parseFileBodies(st, Tail(kids))
            ELSE Ret(st, "UNKNOWN_ITEM_TYPE")

\* FfsParser::parseVolumeBody: the loop over the children of the volume
parseVolumeFileBodies(st, index) == parseFileBodies(st, st.m.kids[index])

\* FfsParser::parseVolumeBody
parseVolumeBody(st, index) ==
    IF st.m.items[index].pdata.ffsVersion \notin {2, 3} THEN Ret(st, "SUCCESS")
    ELSE parseVolumeFileBodies(
             parseVolumeFiles(visited(st, "parseVolumeBody", index, -1), index, 0), index)

RECURSIVE parseVolumeBodies(_, _)
parseVolumeBodies(st, kids) ==
    IF kids = <<>> THEN Ret(st, "SUCCESS")
    ELSE LET t == st.m.items[Head(kids)].type
         IN IF t = "Volume" THEN parseVolumeBodies(parseVolumeBody(st, Head(kids)), Tail(kids))
            ELSE IF t = "Padding" THEN parseVolumeBodies(st, Tail(kids))
            ELSE Ret(st, "UNKNOWN_ITEM_TYPE")

FirstError(firstError, code) == IF firstError = "SUCCESS" THEN code ELSE firstError

\* FfsParser::parseRawArea: the loop "while (!result)" over the volumes.
\* exit is "return" (the function returned ret at once), "break" or "end".
RECURSIVE parseRawAreaLoop(_, _, _, _, _, _)
parseRawAreaLoop(st0, index, prevVolumeOffset, prevVolumeSize, volumeOffset, firstError) ==
    LET st         == visited(st0, "parseRawArea", index, volumeOffset)
        it         == st.m.items[index]
        headerSize == it.header.n
        offset     == it.offset + headerSize
        data       == it.body
        paddingOffset == prevVolumeOffset + prevVolumeSize
        padded(s, at, padding) ==
            AddNode(s, offset + at, "Padding", getPaddingType(st.img, padding), NoBytes,
                    padding, NoBytes, TRUE, index)
        returned(s, ret) ==
            [st |-> s, exit |-> "return", ret |-> ret,
             prevVolumeOffset |-> prevVolumeOffset, prevVolumeSize |-> prevVolumeSize,
             firstError |-> FirstError(firstError, ret)]
        next(nx, volumeSize, fe) ==
            IF nx.ret = "SUCCESS"
            THEN parseRawAreaLoop(nx.st, index, volumeOffset, volumeSize, nx.next, fe)
            ELSE [st |-> nx.st, exit |-> "end", ret |-> nx.ret,
                  prevVolumeOffset |-> volumeOffset, prevVolumeSize |-> volumeSize,
                  firstError |-> fe]
        header(s, vs) ==
            next(findNextVolume(
                     IF s.ret # "SUCCESS"
                     THEN msg(s, "parseRawArea: volume header parsing failed", index)
                     ELSE IF vs.volumeSize # vs.bmVolumeSize
                     THEN msgAdded(s, "parseRawArea: volume size differs from block map")
                     ELSE s,
                     index, data, volumeOffset + vs.volumeSize),
                 vs.volumeSize, FirstError(firstError, s.ret))
        volume(s, vs) ==
            IF vs.ret # "SUCCESS"
            THEN returned(msg(s, "parseRawArea: getVolumeSize failed", index), vs.ret)
            ELSE IF vs.volumeSize > data.n \/ volumeOffset + vs.volumeSize > data.n
            THEN IF st.eng = "common"
                 THEN returned(msg(s, "parseRawArea: one of volumes inside overlaps the end of data",
                                   index), "INVALID_VOLUME")
                 ELSE [st |-> msgAdded(padded(s, volumeOffset, mid(data, volumeOffset, -1)),
                                       "parseRawArea: one of volumes inside overlaps the end of data"),
                       exit |-> "break", ret |-> "SUCCESS",
                       prevVolumeOffset |-> volumeOffset,
                       prevVolumeSize |-> mid(data, volumeOffset, -1).n,
                       firstError |-> firstError]
            ELSE header(parseVolumeHeader(s, mid(data, volumeOffset, vs.volumeSize),
                                          headerSize + volumeOffset, index), vs)
    IN volume(IF volumeOffset > paddingOffset
              THEN padded(st, paddingOffset,
                          mid(data, paddingOffset, volumeOffset - paddingOffset))
              ELSE st,
              getVolumeSize(st.img, data, volumeOffset))

\* one record of rawLog: the area, the first error met in it, the value returned
Logged(st, index, firstError, ret) ==
    [Ret(st, ret) EXCEPT !.log = Append(@, [index |-> index, firstError |-> firstError,
                                            ret |-> ret])]

\* FfsParser::parseRawArea: the loop over the children of the area
parseRawAreaBodies(st, index) == parseVolumeBodies(st, st.m.kids[index])

\* FfsParser::parseRawArea
parseRawArea(st, index) ==
    LET it         == st.m.items[index]
        headerSize == it.header.n
        offset     == it.offset + headerSize
        data       == it.body
        padded(s, at, padding) ==
            AddNode(s, at, "Padding", getPaddingType(st.img, padding), NoBytes, padding,
                    NoBytes, TRUE, index)
        \* the padding before the first volume
        started(first) ==
            IF first.next > 0 THEN padded(first.st, offset, left(data, first.next))
            ELSE first.st
        \* the padding after the last volume
        ended(lp) ==
            IF data.n > lp.prevVolumeOffset + lp.prevVolumeSize
            THEN padded(lp.st,
                        (IF st.eng = "common" THEN offset + headerSize ELSE offset)
                        + lp.prevVolumeOffset + lp.prevVolumeSize,
                        mid(data, lp.prevVolumeOffset + lp.prevVolumeSize, -1))
            ELSE lp.st
        logged(s, firstError) == Logged(s, index, firstError, s.ret)
    IN Only({IF first.ret # "SUCCESS" THEN Logged(first.st, index, "SUCCESS", first.ret)
             ELSE Only({IF lp.exit = "return"
                        THEN Logged(lp.st, index, lp.firstError, lp.ret)
                        ELSE logged(parseRawAreaBodies(ended(lp), index), lp.firstError) :
                        lp \in {parseRawAreaLoop(visited(started(first), "parseRawArea",
                                                         index, -1), index, first.next, 0,
                                                 first.next, "SUCCESS")}}) :
             first \in {findNextVolume(st, index, data, 0)}})

\* ------------------------------------------------------------------------
\* Intel images.  The descriptor of an image is kept as the fields the
\* parser reads: [sig, MasterBase, RegionBase, ComponentBase,
\* ReadClockFrequency, me, bios, gbe, reserved1, reserved3, reserved4]; a
\* region is [base, limit, offset, length], offset and length being what
\* calculateRegionOffset and calculateRegionSize give for the region's Base
\* and Limit.  The limits of the PDR, Reserved2 and EC regions, which the
\* parser treats as it treats GbE, Reserved1 and Reserved3, are zero in every
\* image of the model, and no two regions of an image start at one offset.
\* ------------------------------------------------------------------------
FLASH_DESCRIPTOR_MAX_BASE == 224

Region(type, offset, length, data) ==
    [type |-> type, offset |-> offset, length |-> length, data |-> data]

\* std::sort(regions.begin(), regions.end()) on REGION_INFO::offset
RECURSIVE SortRegions(_)
SortRegions(regions) ==
    IF regions = <<>> THEN <<>>
    ELSE LET first == CHOOSE i \in 1..Len(regions) :
                          \A j \in 1..Len(regions) :
                              regions[i].offset < regions[j].offset
                              \/ (regions[i].offset = regions[j].offset /\ i <= j)
         IN <<regions[first]>>
            \o SortRegions(SubSeq(regions, 1, first - 1)
                           \o SubSeq(regions, first + 1, Len(regions)))

\* FfsParser::parseIntelImage: the loop that checks region i (counted from
\* 0) against region i - 1 and inserts a padding where they leave a gap.
\* The older engine inserts the padding in front of region i - 1: the next
\* round then finds the same two regions at i and i + 1 and the same gap,
\* and the loop goes on inserting until the vector cannot grow any more;
\* NO_RETURN stands for the call that never returns a status.
RECURSIVE checkRegions(_, _, _, _)
checkRegions(st, intelImage, regions, i) ==
    IF i >= Len(regions) THEN [st |-> st, ret |-> "SUCCESS", regions |-> regions]
    ELSE
    LET cur  == regions[i + 1]
        prev == regions[i]
        previousRegionEnd == prev.offset + prev.length
    IN IF cur.offset + cur.length > intelImage.n
       THEN [st |-> msg(st, "parseIntelImage: region is located outside of the opened image",
                        NoIndex),
             ret |-> "TRUNCATED_IMAGE", regions |-> regions]
       ELSE IF cur.offset < previousRegionEnd
       THEN [st |-> msg(st, "parseIntelImage: region has intersection with another region",
                        NoIndex),
             ret |-> "INVALID_FLASH_DESCRIPTOR", regions |-> regions]
       ELSE IF cur.offset > previousRegionEnd
       THEN LET data == mid(intelImage, previousRegionEnd, cur.offset - previousRegionEnd)
                region == Region(getPaddingType(st.img, data), previousRegionEnd,
                                 cur.offset - previousRegionEnd, data)
            IN IF st.eng = "common"
               THEN \* std::advance(iter, i - 1)
                    [st |-> st, ret |-> "NO_RETURN",
                     regions |-> InsertAt(regions, i, region)]
               ELSE \* std::advance(iter, i)
                    checkRegions(st, intelImage, InsertAt(regions, i + 1, region), i + 1)
       ELSE checkRegions(st, intelImage, regions, i + 1)

\* FfsParser::parseMeRegion
parseMeRegion(st, me, localOffset, parent) ==
    IF me.n = 0 THEN Ret(st, "EMPTY_REGION")
    ELSE IF ~(AllBytes(st.img, me, "FF") \/ AllBytes(st.img, me, "00"))
    THEN \* no version signature: (UINT32)versionOffset + sizeof(ME_VERSION) exceeds any size
         Ret(st, "INVALID_REGION")
    ELSE Ret(msgAdded(AddNode(st, st.m.items[parent].offset + localOffset, "Region",
                              "MeRegion", NoBytes, me, NoBytes, TRUE, parent),
                      "parseMeRegion: ME region is empty"),
             "SUCCESS")

\* FfsParser::parseBiosRegion
parseBiosRegion(st, bios, localOffset, parent) ==
    IF bios.n = 0 THEN Ret(st, "EMPTY_REGION")
    ELSE parseRawAreaAdded(AddNode(st, st.m.items[parent].offset + localOffset, "Region",
                                   "BiosRegion", NoBytes, bios, NoBytes, TRUE, parent))

\* FfsParser::parseIntelImage: the loop "Parse regions"; parseResult keeps
\* the first failed result
RECURSIVE parseRegions(_, _, _, _, _, _)
parseRegions(st, intelImage, localOffset, index, regions, parseResult) ==
    LET region == Head(regions)
        padded(padding) ==
            Ret(AddNode(st, localOffset + region.offset, "Padding",
                        getPaddingType(st.img, padding), NoBytes, padding, NoBytes, TRUE,
                        index),
                "SUCCESS")
        \* FfsParser::parseGbeRegion; a region of the model is made of blocks
        \* of 4096 bytes, so one that is not empty holds a GBE_VERSION
        parseGbeRegion(gbe) ==
            IF gbe.n = 0 THEN Ret(st, "EMPTY_REGION")
            ELSE Ret(AddNode(st, st.m.items[index].offset + region.offset, "Region",
                             "GbeRegion", NoBytes, gbe, NoBytes, TRUE, index),
                     "SUCCESS")
        \* FfsParser::parseGeneralRegion
        parseGeneralRegion(subtype, data) ==
            IF data.n = 0 THEN Ret(st, "EMPTY_REGION")
            ELSE Ret(AddNode(st, st.m.items[index].offset + region.offset, "Region",
                             subtype, NoBytes, data, NoBytes, TRUE, index),
                     "SUCCESS")
        next(s) == parseRegions(s, intelImage, localOffset, index, Tail(regions),
                                FirstError(parseResult, s.ret))
    IN IF regions = <<>> THEN Ret(st, parseResult)
       ELSE next(CASE region.type = "BiosRegion" ->
                        parseBiosRegion(st, region.data, region.offset, index)
                   [] region.type = "MeRegion" ->
                        parseMeRegion(st, region.data, region.offset, index)
                   [] region.type = "GbeRegion" ->
                        parseGbeRegion(region.data)
                   [] region.type \in {"Reserved1Region", "Reserved3Region",
                                       "Reserved4Region"} ->
                        parseGeneralRegion(region.type, region.data)
                   [] region.type \in {"ZeroPadding", "OnePadding", "DataPadding"} ->
                        padded(mid(intelImage, region.offset, region.length))
                   [] OTHER ->
                        Ret(msg(st, "parseIntelImage: region of unknown type found", index),
                            "INVALID_FLASH_DESCRIPTOR"))

\* FfsParser::parseIntelImage; idx of the result is the Intel image item
parseIntelImage(st, intelImage, localOffset, parent) ==
    LET d == st.img.desc
        invalid(text) == Ret(msg(st, text, NoIndex), "INVALID_FLASH_DESCRIPTOR")
    IN
    IF intelImage.n = 0 THEN Ret(st, "INVALID_PARAMETER")
    ELSE IF intelImage.n < FLASH_DESCRIPTOR_SIZE
    THEN invalid("parseIntelImage: input file is smaller than minimum descriptor size")
    ELSE IF d.MasterBase > FLASH_DESCRIPTOR_MAX_BASE \/ d.MasterBase = d.RegionBase
            \/ d.MasterBase = d.ComponentBase
    THEN invalid("parseIntelImage: invalid descriptor master base")
    ELSE IF d.RegionBase > FLASH_DESCRIPTOR_MAX_BASE \/ d.RegionBase = d.ComponentBase
    THEN invalid("parseIntelImage: invalid descriptor region base")
    ELSE IF d.ComponentBase > FLASH_DESCRIPTOR_MAX_BASE
    THEN invalid("parseIntelImage: invalid descriptor component base")
    ELSE IF st.eng = "common" /\ d.ReadClockFrequency \notin {"20MHz", "17MHz"}
    THEN invalid("parseIntelImage: unknown descriptor version")
    ELSE
    LET descriptorVersion == IF d.ReadClockFrequency = "20MHz" THEN 1 ELSE 2
        info(type, r) == <<Region(type, r.offset, r.length,
                                  mid(intelImage, r.offset, r.length))>>
        me == IF d.me.limit # 0 THEN info("MeRegion", d.me) ELSE <<>>
        gbe == IF d.gbe.limit # 0 THEN info("GbeRegion", d.gbe) ELSE <<>>
        reserved1 ==
            IF d.reserved1.limit # 0 /\ d.reserved1.base # 65535
               /\ d.reserved1.limit # 65535
            THEN info("Reserved1Region", d.reserved1)
            ELSE <<>>
        \* reserved3.type = Subtypes::Reserved3Region is overwritten, before
        \* the region is used, by the reserved3.type = Subtypes::Reserved4Region
        \* that follows the declaration of reserved4
        reserved3 ==
            IF descriptorVersion = 2 /\ d.reserved3.limit # 0
            THEN info("Reserved4Region", d.reserved3)
            ELSE <<>>
        \* reserved4.type is never assigned: the region carries whatever the
        \* byte held
        reserved4 ==
            IF descriptorVersion = 2 /\ d.reserved4.limit # 0
            THEN info(st.reserved4type, d.reserved4)
            ELSE <<>>
        meOffset   == IF d.me.limit # 0 THEN d.me.offset ELSE 0
        meLength   == IF d.me.limit # 0 THEN d.me.length ELSE 0
        gigabyte   == d.bios.length = intelImage.n
        biosOffset == IF gigabyte THEN meOffset + meLength ELSE d.bios.offset
        \* (UINT32)intelImage.size() - bios.offset wraps when the offset lies
        \* after the image; 2^30 stands for the 2^32 of the wrapped value, and
        \* the comparisons and slices that read it give the same results
        biosLength == IF ~gigabyte THEN d.bios.length
                      ELSE IF biosOffset > intelImage.n
                      THEN 1073741824 + intelImage.n - biosOffset
                      ELSE intelImage.n - biosOffset
        bios == <<Region("BiosRegion", biosOffset, biosLength,
                         mid(intelImage, biosOffset, biosLength))>>
    IN
    IF d.bios.limit = 0
    THEN invalid("parseIntelImage: descriptor parsing failed, BIOS region not found in descriptor")
    ELSE IF gigabyte /\ meOffset = 0
    THEN invalid("parseIntelImage: can't determine BIOS region start from Gigabyte-specific descriptor")
    ELSE
    LET sorted == SortRegions(me \o bios \o gbe \o reserved1 \o reserved3 \o reserved4)
        front  == sorted[1]
    IN
    IF front.offset < FLASH_DESCRIPTOR_SIZE
    THEN invalid("parseIntelImage: region has intersection with flash descriptor")
    ELSE
    LET withFront ==
            IF front.offset > FLASH_DESCRIPTOR_SIZE
            THEN LET data == mid(intelImage, FLASH_DESCRIPTOR_SIZE,
                                 front.offset - FLASH_DESCRIPTOR_SIZE)
                 IN <<Region(getPaddingType(st.img, data), FLASH_DESCRIPTOR_SIZE,
                             front.offset - FLASH_DESCRIPTOR_SIZE, data)>> \o sorted
            ELSE sorted
        chk == checkRegions(st, intelImage, withFront, 1)
        \* the regions with the padding that follows the last of them
        back == chk.regions[Len(chk.regions)]
        backEnd == back.offset + back.length
        regions ==
            IF backEnd < intelImage.n
            THEN LET data == mid(intelImage, backEnd, intelImage.n - backEnd)
                 IN Append(chk.regions, Region(getPaddingType(st.img, data), backEnd,
                                               intelImage.n - backEnd, data))
            ELSE chk.regions
        s1 == AddNode(st, localOffset, "Image", "IntelImage", NoBytes, intelImage, NoBytes,
                      TRUE, parent)
        index == s1.idx
    IN IF chk.ret # "SUCCESS" THEN Ret(chk.st, chk.ret)
       ELSE [parseRegions(AddNode(s1, localOffset, "Region", "DescriptorRegion", NoBytes,
                                  left(intelImage, FLASH_DESCRIPTOR_SIZE), NoBytes, TRUE,
                                  index),
                          intelImage, localOffset, index, regions, "SUCCESS")
             EXCEPT !.idx = index]

\* a test that lets every result of parseIntelImage end the first pass
returnsIntelResult_always(code) == TRUE

\* FfsParser::performFirstPass: if (result != U_INVALID_FLASH_DESCRIPTOR)
returnsIntelResult(code) == code # "INVALID_FLASH_DESCRIPTOR"

\* FfsParser::performFirstPass; root of the result is the index handed back
performFirstPass(st) ==
    LET buffer == View(0, st.img.size)
        cap    == st.img.capsule
        capsuleHeaderSize == IF cap.kind = "efi" THEN cap.HeaderSize ELSE 0
        flashImage == mid(buffer, capsuleHeaderSize, -1)
        s1 == IF cap.kind = "efi"
              THEN AddNode(st, 0, "Capsule", "UefiCapsule", left(buffer, capsuleHeaderSize),
                           mid(buffer, capsuleHeaderSize, -1), NoBytes, TRUE, NoIndex)
              ELSE st
        index == IF cap.kind = "efi" THEN s1.idx ELSE NoIndex
        rootOf(first) == IF index = NoIndex THEN first ELSE index
        uefi(s) == AddNode(s, capsuleHeaderSize, "Image", "UefiImage", NoBytes, flashImage,
                           NoBytes, TRUE, index)
    IN
    IF buffer.n <= sizeofCapsuleHeader
    THEN [st |-> Ret(msg(st, "performFirstPass: image file is smaller than minimum size",
                         NoIndex), "INVALID_PARAMETER"),
          root |-> NoIndex]
    ELSE IF cap.kind = "efi"
            /\ (cap.HeaderSize = 0 \/ cap.HeaderSize > buffer.n
                \/ cap.HeaderSize > cap.CapsuleImageSize)
    THEN [st |-> Ret(msg(st, "performFirstPass: UEFI capsule header size is invalid", NoIndex),
                     "INVALID_CAPSULE"),
          root |-> NoIndex]
    ELSE IF cap.kind = "efi" /\ (cap.CapsuleImageSize = 0 \/ cap.CapsuleImageSize > buffer.n)
    THEN [st |-> Ret(msg(st, "performFirstPass: UEFI capsule image size is invalid", NoIndex),
                     "INVALID_CAPSULE"),
          root |-> NoIndex]
    ELSE Only({IF st.img.desc.sig /\ returnsIntelResult(intel.ret)
               THEN [st |-> intel, root |-> rootOf(intel.idx)]
               ELSE [st |-> parseRawAreaAdded(uefi(IF st.img.desc.sig THEN intel ELSE s1)),
                     root |-> rootOf(uefi(IF st.img.desc.sig THEN intel ELSE s1).idx)] :
               intel \in {parseIntelImage(s1, flashImage, capsuleHeaderSize, index)}})

\* ------------------------------------------------------------------------
\* The later passes.  A 32-bit word is kept as its two's-complement
\* reading, so the address 2^32 - k is the integer -k.
\* ------------------------------------------------------------------------

\* FfsParser::addOffsetsRecursive (the older engine also adds the
\* "Compressed" and "Fixed" lines here)
RECURSIVE addOffsetsRecursive(_, _, _)
RECURSIVE addOffsetsKids(_, _, _)
addOffsetsRecursive(eng, m, index) ==
    IF index = NoIndex THEN m
    ELSE LET it == m.items[index]
             m1 == IF ~it.compressed \/ (it.parent # NoIndex /\ ~m.items[it.parent].compressed)
                   THEN addInfo(m, index, [k |-> "Offset", v |-> it.offset], FALSE)
                   ELSE m
             m2 == IF eng = "common"
                   THEN addInfo(addInfo(m1, index, [k |-> "Compressed", v |-> it.compressed],
                                        TRUE),
                                index, [k |-> "Fixed", v |-> it.fixed], TRUE)
                   ELSE m1
         IN addOffsetsKids(eng, m2, m.kids[index])

addOffsetsKids(eng, m, kids) ==
    IF kids = <<>> THEN m
    ELSE addOffsetsKids(eng, addOffsetsRecursive(eng, m, Head(kids)), Tail(kids))

\* an update that stores the address over the offset of the item
setAddress_overOffset(m, index, address) == [m EXCEPT !.items[index].offset = address]

\* pdata.address = diff + pdata.offset; model->setParsingData(index, pdata)
setAddress(m, index, address) == [m EXCEPT !.items[index].pdata.address = address]

\* a sum taken in 32 bits: it never passes FFFFFFFFh
addressIsSane_wrapped(address) == TRUE

\* UINT64 address = addressDiff + offset; address <= 0xFFFFFFFF.  Addresses
\* are kept in their two's-complement reading: the sum stays below 2^32
\* exactly when it is negative
addressIsSane(address) == address < 0

\* FfsParser::addMemoryAddressesRecursive; diff is addressDiff
RECURSIVE addMemoryAddressesRecursive(_, _, _, _)
RECURSIVE addMemoryAddressesKids(_, _, _, _)
addMemoryAddressesRecursive(eng, m, index, diff) ==
    IF index = NoIndex THEN m
    ELSE LET it == m.items[index]
             address == diff + it.offset
             m1 == IF ~it.compressed /\ addressIsSane(address)
                   THEN LET m0 == IF it.header.n # 0
                                  THEN addInfo(addInfo(m, index,
                                                       [k |-> "Header memory address",
                                                        v |-> address], TRUE),
                                               index, [k |-> "Data memory address",
                                                       v |-> address + it.header.n], TRUE)
                                  ELSE addInfo(m, index, [k |-> "Memory address",
                                                          v |-> address], TRUE)
                        IN IF eng = "common"
                           THEN setAddress(m0, index, address)
                           ELSE m0
                   ELSE m
         IN addMemoryAddressesKids(eng, m1, m.kids[index], diff)

addMemoryAddressesKids(eng, m, kids, diff) ==
    IF kids = <<>> THEN m
    ELSE addMemoryAddressesKids(eng, addMemoryAddressesRecursive(eng, m, Head(kids), diff),
                                Tail(kids), diff)

\* FfsParser::addFixedAndCompressedRecursive
RECURSIVE addFixedAndCompressedRecursive(_, _)
RECURSIVE addFixedAndCompressedKids(_, _)
addFixedAndCompressedRecursive(m, index) ==
    IF index = NoIndex THEN m
    ELSE LET it == m.items[index]
             m1 == addInfo(addInfo(m, index, [k |-> "Compressed", v |-> it.compressed], TRUE),
                           index, [k |-> "Fixed", v |-> it.fixed], TRUE)
         IN addFixedAndCompressedKids(m1, m.kids[index])

addFixedAndCompressedKids(m, kids) ==
    IF kids = <<>> THEN m
    ELSE addFixedAndCompressedKids(addFixedAndCompressedRecursive(m, Head(kids)), Tail(kids))

\* body.indexOf(FIT_SIGNATURE, from): the FIT tables that lie in the body
FitsIn(img, body) ==
    {f \in img.content.fits : body.s <= f.at /\ f.at + 8 <= body.s + body.n}

\* findFitRecursive: the loop over the FIT candidates of one item, in
\* ascending order; base is the physical address of the item
RECURSIVE findFitCandidates(_, _, _, _)
findFitCandidates(st, index, base, cands) ==
    IF cands = {} THEN [st |-> st, found |-> NoIndex, fitOffset |-> 0]
    ELSE LET it     == st.m.items[index]
             f      == CHOOSE g \in cands : \A h \in cands : g.at <= h.at
             offset == f.at - it.body.s
             fitAddress == base + it.header.n + offset
         IN IF fitAddress = st.img.ptr
            THEN [st |-> msg(st, "findFitRecursive: real FIT table found", index),
                  found |-> index, fitOffset |-> offset]
            ELSE findFitCandidates(
                    IF st.m.kids[index] = <<>>
                    THEN msg(st, "findFitRecursive: FIT table candidate found, but not referenced from the last VTF", index)
                    ELSE st,
                    index, base, cands \ {f})

\* FfsParser::findFitRecursive / FitParser::findFitRecursive
RECURSIVE findFitRecursive(_, _, _)
RECURSIVE findFitKids(_, _, _)
findFitRecursive(st, index, diff) ==
    IF index = NoIndex THEN [st |-> st, found |-> NoIndex, fitOffset |-> 0]
    ELSE LET below == findFitKids(st, st.m.kids[index], diff)
         IN IF below.found # NoIndex THEN below
            ELSE LET it == below.st.m.items[index]
                 IN findFitCandidates(below.st, index,
                                      IF st.eng = "common" THEN it.pdata.address
                                      ELSE it.offset + diff,
                                      FitsIn(st.img, it.body))

findFitKids(st, kids, diff) ==
    IF kids = <<>> THEN [st |-> st, found |-> NoIndex, fitOffset |-> 0]
    ELSE LET r == findFitRecursive(st, Head(kids), diff)
         IN IF r.found # NoIndex THEN r ELSE findFitKids(r.st, Tail(kids), diff)

\* the FIT table whose signature is at fitOffset of the item's body
FitHeaderAt(st, fitIndex, fitOffset) ==
    CHOOSE f \in st.img.content.fits : f.at = st.m.items[fitIndex].body.s + fitOffset

\* sha256 of a public key; a hash is <<>> while it is empty
sha256(data) == <<"sha256", data>>

\* FfsParser::parseFit: the loop "Process all other entries".  An entry of
\* the model is [Type, item, BpKeyHash, PubKey]: item tells what the parser
\* meets at the entry's Address, "valid" (an item whose structure is parsed
\* with U_SUCCESS), "invalid" (an item whose structure is refused) or
\* "missing" (findByOffset finds no item); BpKeyHash is the hash a key
\* manifest stores and PubKey the key of the signature element of a boot
\* policy, 0 when the policy has no such element.  The item found is taken
\* to be the one that holds the table.
RECURSIVE parseFitEntries(_, _, _)
parseFitEntries(st, fitIndex, entries) ==
    IF entries = <<>> THEN st
    ELSE
    LET currentEntry == Head(entries)
        valid == currentEntry.item = "valid"
        \* parseIntelAcm, parseIntelBootGuardKeyManifest, parseIntelBootGuardBootPolicy
        parsed ==
            CASE valid /\ currentEntry.Type = "BIOS_AC_MODULE" ->
                    [st EXCEPT !.bgAcmFound = TRUE]
              [] valid /\ currentEntry.Type = "AC_KEY_MANIFEST" ->
                    [st EXCEPT !.bgKmHash = currentEntry.BpKeyHash,
                               !.bgKeyManifestFound = TRUE]
              [] valid /\ currentEntry.Type = "AC_BOOT_POLICY" ->
                    [st EXCEPT !.bgBpHash = IF currentEntry.PubKey # 0
                                            THEN sha256(currentEntry.PubKey) ELSE @,
                               !.bgBootPolicyFound = TRUE]
              [] currentEntry.item = "missing" ->
                    msg(st, "parseFit: FIT entry not found in the image", fitIndex)
              [] OTHER -> st
        row == [strings |-> <<"address", "size", "version", "checksum", currentEntry.Type,
                              IF valid THEN "info" ELSE "">>,
                index |-> IF valid THEN fitIndex ELSE NoIndex]
    IN parseFitEntries([parsed EXCEPT !.fitTable = Append(@, row)], fitIndex, Tail(entries))

\* FfsParser::parseFit.  The FIT tables of the model carry no checksum and
\* no second header entry.
parseFit(st, index, diff) ==
    IF index = NoIndex THEN Ret(st, "INVALID_PARAMETER")
    ELSE LET r == findFitRecursive(st, index, diff)
         IN IF r.found = NoIndex THEN Ret(r.st, "SUCCESS")
            ELSE LET s1 == [r.st EXCEPT !.m = setFixed(@, r.found, TRUE)]
                     fitHeader == FitHeaderAt(s1, r.found, r.fitOffset)
                     s2 == parseFitEntries(
                              [s1 EXCEPT !.fitTable =
                                   Append(@, [strings |-> <<"_FIT_", "size", "version",
                                                            "checksum", "type", "">>,
                                              index |-> r.found])],
                              r.found, fitHeader.entries)
                 IN IF fitHeader.hdr # "ok"
                    THEN Ret(msg(s1, "Invalid FIT header type", r.found), "INVALID_FIT")
                    \* Perform validation of BootGuard stuff
                    ELSE IF ~s2.bgAcmFound THEN Ret(s2, "SUCCESS")
                    ELSE IF ~s2.bgKeyManifestFound
                    THEN Ret(msg(s2, "parseBootGuardData: ACM found, but KeyManifest isn't",
                                 r.found), "SUCCESS")
                    ELSE IF ~s2.bgBootPolicyFound
                    THEN Ret(msg(s2, "parseBootGuardData: ACM and KeyManifest found, BootPolicy isn't",
                                 r.found), "SUCCESS")
                    ELSE IF s2.bgKmHash # <<>> /\ s2.bgBpHash = <<>>
                            /\ s2.bgKmHash # s2.bgBpHash
                    THEN Ret(msg(s2, "parseBootGuardData: BootPolicy key hash stored in KeyManifest differs from the hash of public key stored in BootPolicy",
                                 r.found), "SUCCESS")
                    ELSE Ret(s2, "SUCCESS")

\* FfsParser::checkProtectedRanges: the boot policies of the model define
\* no protected range, so bgProtectedRanges is empty and nothing is marked
checkProtectedRanges(st, index) ==
    IF index = NoIndex THEN Ret(st, "INVALID_PARAMETER")
    ELSE IF st.bgBootPolicyFound
    THEN Ret(msg(st, "checkProtectedRanges: BootPolicy doesn't define any BG-protected ranges",
                 index), "SUCCESS")
    ELSE Ret(st, "SUCCESS")

\* FfsParser::performSecondPass
performSecondPass(st, index) ==
    IF index = NoIndex \/ st.lastVtf = NoIndex THEN Ret(st, "INVALID_PARAMETER")
    ELSE IF st.m.items[st.lastVtf].compressed
    THEN Ret(msg(st, "performSecondPass: the last VTF appears inside compressed item",
                 st.lastVtf), "SUCCESS")
    ELSE
    LET vtf     == st.m.items[st.lastVtf]
        vtfSize == IF st.eng = "common"
                   THEN vtf.header.n + vtf.body.n + (IF vtf.pdata.hasTail THEN sizeofTail ELSE 0)
                   ELSE vtf.header.n + vtf.body.n + vtf.tail.n
        \* 0xFFFFFFFF - offset - vtfSize + 1
        addressDiff == -(vtf.offset + vtfSize)
    IN IF st.eng = "common"
       THEN Ret([st EXCEPT !.m = addMemoryAddressesRecursive("common", @, index, addressDiff)],
                "SUCCESS")
       ELSE LET s1 == parseFit(st, index, addressDiff)
                s2 == checkProtectedRanges(s1, index)
                s3 == [s2 EXCEPT !.m = addFixedAndCompressedRecursive(
                                          addMemoryAddressesRecursive("part003", @, index,
                                                                      addressDiff), index)]
            IN Ret(s3, "SUCCESS")

\* FitParser::parse (fitparser.cpp), called by UEFIExtract::dump
FitParser_parse(st, index, lastVtfIndex) ==
    IF index = NoIndex \/ lastVtfIndex = NoIndex THEN Ret(st, "INVALID_PARAMETER")
    ELSE LET r == findFitRecursive(st, index, 0)
         IN IF r.found = NoIndex THEN Ret(r.st, "SUCCESS")
            ELSE LET s1 == [r.st EXCEPT !.m = setFixed(@, index, TRUE)]
                     fitHeader == FitHeaderAt(s1, r.found, r.fitOffset)
                     s2 == IF fitHeader.hdr # "ok"
                           THEN msg(s1, "Invalid FIT header type", r.found) ELSE s1
                     \* the entries after the header: all but microcode entries
                     \* raise msgModifiedImageMayNotWork
                     rows == [i \in 1..Len(fitHeader.entries) |->
                                 [strings |-> <<"address", "size", "version",
                                                fitHeader.entries[i].Type, "checksum">>,
                                  index |-> NoIndex]]
                     s3 == IF \E i \in 1..Len(fitHeader.entries) :
                                  fitHeader.entries[i].Type # "MICROCODE"
                           THEN msg(s2, "Opened image may not work after any modification",
                                    NoIndex)
                           ELSE s2
                 IN Ret([s3 EXCEPT !.fitTable =
                               Append(@, [strings |-> <<"_FIT_", "size", "version", "type",
                                                        "checksum">>,
                                          index |-> NoIndex]) \o rows],
                        "SUCCESS")

\* ------------------------------------------------------------------------
\* The images the parser is run on
\* ------------------------------------------------------------------------
F_driver == File("DRIVER", "g1", {}, <<Sec(24)>>)

F_sections == File("DRIVER", "g2", {}, <<Sec(22), Free(2), Sec(16)>>)

F_short == File("DRIVER", "g3", {}, <<Sec(20)>>)

F_pad == File("PAD", "gp", {}, <<Free(40)>>)

F_padData(k) == File("PAD", "gp", {}, <<Free(k), Data(40 - k)>>)

F_raw == File("RAW", "gr", {}, <<Vol(2, "ffs2", <<Free(56)>>), Data(16)>>)

F_fit(hdr) == File("RAW", "gf", {}, <<Fit(32, hdr)>>)

F_vtf == File("RAW", "vtf", {"FIXED"}, <<Data(64)>>)

V_free == Vol(2, "ffs2", <<Free(56)>>)

V_unknown == Vol(2, "unknown", <<Data(56)>>)

V_badHeader == VolX(2, "ffs2", 200, 0, <<Free(56)>>)

V_truncated == VolX(2, "ffs2", 72, 64, <<Free(56)>>)

V_revision3 == Vol(3, "ffs2", <<Free(56)>>)

\* the volumes that open a raw area
FirstVolumes ==
    {V_free, V_unknown, V_badHeader, V_revision3,
     Vol(2, "ffs2", <<F_driver, Free(32)>>),
     Vol(1, "ffs2", <<F_sections, F_short, Free(4), F_pad>>),
     Vol(2, "ffs2", <<F_driver, F_pad, F_vtf>>),
     Vol(2, "ffs2", <<F_raw, F_vtf>>),
     Vol(2, "ffs2", <<F_short, Free(4), Data(40)>>)}
    \cup {Vol(2, "ffs2", <<F_fit(h), F_driver, F_vtf>>) : h \in {"ok", "bad"}}
    \cup {Vol(2, "ffs2", <<F_padData(k), F_vtf>>) : k \in {0, 4, 16}}

\* what follows the first volume
SecondPieces ==
    {<<>>, <<V_free>>, <<V_unknown>>, <<V_badHeader, V_free>>, <<V_truncated>>,
     <<Stub(64)>>, <<Ovl(32, 100)>>}

\* a header needs data bytes under it: ovl follows the body of V_unknown
SecondsAfter(v) == {s \in SecondPieces : s = <<Ovl(32, 100)>> => v = V_unknown}

RawAreas ==
    UNION {{pre \o <<v>> \o gap \o second \o post :
               pre \in {<<>>, <<Data(64)>>}, gap \in {<<>>, <<Data(16)>>},
               second \in SecondsAfter(v), post \in {<<>>, <<Free(16)>>}} :
           v \in FirstVolumes}

Capsule(HeaderSize, CapsuleImageSize) ==
    [kind |-> "efi", HeaderSize |-> HeaderSize, CapsuleImageSize |-> CapsuleImageSize]

\* capsules: a valid one, one whose image size is below its header size and
\* one whose image size exceeds the file
CapsuledImages ==
    {UefiImageOf(<<v>>, Capsule(28, 28 + PiecesLen(<<v>>) + d), "fit") :
        v \in FirstVolumes, d \in {0, 8}}
    \cup {UefiImageOf(<<V_free>>, Capsule(28, 16), "fit")}

\* a region of the descriptor; calculateRegionOffset gives Base * 1000h
RegionOf(limit, offset, length) ==
    [base |-> offset \div 4096, limit |-> limit, offset |-> offset, length |-> length]

Descriptor(MasterBase, RegionBase, ComponentBase, freq, me, bios) ==
    [sig |-> TRUE, MasterBase |-> MasterBase, RegionBase |-> RegionBase,
     ComponentBase |-> ComponentBase, ReadClockFrequency |-> freq, me |-> me, bios |-> bios,
     gbe |-> RegionOf(0, 0, 0), reserved1 |-> RegionOf(0, 0, 0),
     reserved3 |-> RegionOf(0, 0, 0), reserved4 |-> RegionOf(0, 0, 0)]

\* descriptors of images of 12288 bytes: descriptor, ME region, BIOS region
Descriptors ==
    {Descriptor(mb, 4, 3, freq, me, bios) :
        mb \in {6, 4}, freq \in {"20MHz", "other"},
        me \in {RegionOf(1, 4096, 4096), RegionOf(0, 0, 0)},
        bios \in {RegionOf(2, 8192, 4096), RegionOf(0, 0, 0), RegionOf(3, 8192, 8192),
                  RegionOf(2, 4096, 8192), RegionOf(2, 0, 12288)}}

IntelImages ==
    {IntelImageOf(d, 12288, 8192, <<v, Free(4096 - PiecesLen(<<v>>))>>,
                  {[a |-> 4096, b |-> 8192, c |-> "FF"]}) :
        d \in Descriptors,
        v \in {V_free, V_badHeader, Vol(2, "ffs2", <<F_driver, F_pad, F_vtf>>)}}

\* a file that holds encapsulation sections whose stream either decoder
\* turns into sections (two by Tiano, one by EFI 1.1) or into something else
PackedImages ==
    LET outputs(clean) ==
            {clean, <<Data(16)>>, <<Sec(8), Data(8)>>}
        packed(type) ==
            {<<Comp(type, 40, tiano, efi)>> :
                tiano \in outputs(<<Sec(16), Sec(12)>>), efi \in outputs(<<Sec(20)>>)}
            \cup {<<Comp(type, 40, <<Data(16)>>, <<Sec(20)>>),
                    Comp(type, 40, <<Sec(16), Sec(12)>>, <<Sec(20)>>)>>}
    IN {UefiImageOf(<<Vol(2, "ffs2", <<File("DRIVER", "g4", {}, inner), Free(32)>>)>>,
                    NoCapsule, "none") :
           inner \in packed("COMPRESSION") \cup packed("GUID_DEFINED")}

\* FFSv3 volumes: a large file, a file whose LARGE_FILE attribute is set
\* while its ExtendedSize ends before the extended header does, and files
\* with a section whose Size is FFFFFFh
Ffs3Images ==
    {UefiImageOf(<<Vol(2, "ffs3", inner)>>, NoCapsule, "none") :
        inner \in {<<F_driver, LargeFile("DRIVER", "g5", 4, <<>>), F_short, Free(24)>>,
                   <<LargeFile("DRIVER", "g5", 8, <<>>), F_short, Free(24)>>,
                   <<F_driver, LargeFile("DRIVER", "g6", 0, <<Sec(24)>>), Free(32)>>,
                   <<File("DRIVER", "g7", {}, <<[Sec(24) EXCEPT !.ext = TRUE], Sec(16)>>),
                     Free(24)>>,
                   <<File("DRIVER", "g7", {}, <<Sec(20), [Sec(20) EXCEPT !.ext = TRUE]>>),
                     Free(24)>>}}

\* images at the boundaries of the checks: volumes that are all header, with
\* HeaderLength at the end of the volume and one byte after it; images of
\* 4096 bytes that start with a flash descriptor; raw areas whose first
\* volume signature lies before byte 40; a volume with a compressed section
\* and a volume top file, followed by free space; volumes whose volume top
\* file comes after free space or after data that is no file; images of
\* 20480 bytes whose descriptor names a GbE, Reserved1, Reserved3 or
\* Reserved4 region, with Base or Limit FFFFh among them; an image of 12288
\* bytes whose only region starts where the descriptor ends and is longer
\* than the image; volumes whose FIT lists an ACM, a key manifest and a
\* boot policy, with key hashes that agree or differ, with a policy that has
\* no signature element, and with one of the three absent or refused;
\* volumes with a file that holds one DEPEX section; volumes with a volume
\* top file inside a firmware volume image section, compressed or not,
\* before or after a volume top file of their own
BoundaryImages ==
    LET headers ==
            {VolX(2, "ffs2", PieceLen(Vol(2, "ffs2", inner)) + d, 0, inner) :
                inner \in {<<>>, <<Data(4)>>, <<Free(8)>>}, d \in {0, 1}}
        \* descriptors of images that end where the descriptor ends
        descriptors ==
            {Descriptor(6, 4, 3, "20MHz", me, bios) :
                me \in {RegionOf(0, 0, 0), RegionOf(1, 4096, 4096)},
                bios \in {RegionOf(0, 0, 0), RegionOf(2, 4096, 8192), RegionOf(1, 4096, 4096),
                          RegionOf(2, 8192, 4096), RegionOf(1, 0, 8192)}}
        \* a volume signature in the first 40 bytes of the image, then volumes
        early ==
            {<<Ovl(32, 48)>> \o rest :
                rest \in {<<V_free>>, <<Data(16), V_free>>, <<V_revision3, V_free>>}}
        entry(type, item, hash, key) ==
            [Type |-> type, item |-> item, BpKeyHash |-> hash, PubKey |-> key]
        acm == entry("BIOS_AC_MODULE", "valid", <<>>, 0)
        km(key) == entry("AC_KEY_MANIFEST", "valid", sha256(key), 0)
        bp(key) == entry("AC_BOOT_POLICY", "valid", <<>>, key)
        tables ==
            {<<acm, km(1), bp(1)>>, <<acm, km(1), bp(2)>>, <<acm, km(1), bp(0)>>,
             <<km(1), bp(2)>>, <<acm, bp(1)>>, <<acm, km(1)>>,
             <<entry("MICROCODE", "missing", <<>>, 0), acm, km(2),
               [bp(1) EXCEPT !.item = "invalid"]>>}
        guid == [i \in 1..16 |-> "g"]
        expressions ==
            {<<"BEFORE">> \o guid \o <<"END">>, <<"AFTER">> \o guid \o <<"END">>,
             <<"BEFORE">> \o guid \o <<"TRUE">>, <<"AFTER">> \o guid \o <<"END", "END">>,
             <<"SOR", "PUSH">> \o guid \o <<"END">>, <<"PUSH">> \o guid \o <<"END">>,
             <<"PUSH">> \o guid, <<"TRUE", "END">>, <<"END">>, <<"SOR", "END">>,
             <<"TRUE", "SOR", "END">>, <<"NOT", "END", "FALSE", "END">>,
             <<"TRUE", "g", "END">>, <<"TRUE", "BEFORE">>, <<"FALSE", "AFTER">>,
             <<"TRUE", "FALSE", "AND", "TRUE", "OR", "END">>}
        top == Vol(2, "ffs2", <<F_vtf>>)
        inside == [Sec(sizeofSectionHeader + PieceLen(top))
                      EXCEPT !.type = "FIRMWARE_VOLUME_IMAGE", !.inner = <<top>>]
        squeezed ==
            File("DRIVER", "g4", {}, <<Comp("COMPRESSION", 40, <<inside>>, <<inside>>)>>)
        tops ==
            {<<Vol(2, "ffs2", <<squeezed, F_vtf>>)>>, <<Vol(2, "ffs2", <<squeezed, Free(16)>>)>>,
             <<Vol(2, "ffs2", <<squeezed, Free(16)>>), Vol(2, "ffs2", <<F_driver, F_vtf>>)>>,
             <<Vol(2, "ffs2", <<F_vtf>>), Vol(2, "ffs2", <<squeezed, Free(16)>>)>>,
             <<Vol(2, "ffs2", <<File("DRIVER", "g9", {}, <<inside, Free(4)>>), F_vtf>>)>>}
        none == RegionOf(0, 0, 0)
        third == RegionOf(3, 12288, 4096)
        fourth == RegionOf(4, 16384, 4096)
        others ==
            {<<none, none, third, fourth>>, <<third, fourth, none, none>>,
             <<RegionOf(65535, 268431360, 4096), none, none, none>>,
             <<none, RegionOf(65535, 12288, 268423168), none, none>>,
             <<none, none, none, fourth>>}
        regions ==
            {[Descriptor(6, 4, 3, freq, RegionOf(1, 4096, 4096), RegionOf(2, 8192, 4096))
                EXCEPT !.gbe = o[1], !.reserved1 = o[2], !.reserved3 = o[3],
                       !.reserved4 = o[4]] :
                freq \in {"20MHz", "17MHz"}, o \in others}
    IN {UefiImageOf(<<v, V_free>>, NoCapsule, "none") : v \in headers}
       \cup {UefiImageOf(ps, NoCapsule, "none") : ps \in tops}
       \cup {UefiImageOf(<<Vol(2, "ffs2",
                               <<File("DRIVER", "g8", {},
                                      <<[Sec(sizeofSectionHeader + Len(x))
                                            EXCEPT !.type = "DXE_DEPEX", !.bytes = x]>>),
                                 Free(56 - Len(x))>>)>>, NoCapsule, "none") :
                x \in expressions}
       \cup {UefiImageOf(<<Vol(2, "ffs2",
                               <<File("RAW", "gf", {},
                                      <<[Fit(16 * (Len(t) + 1), "ok") EXCEPT !.entries = t]>>),
                                 F_driver, F_vtf>>)>>, NoCapsule, "fit") :
                t \in tables}
       \cup {IntelImageOf(d, 20480, 8192, <<V_free, Free(4096 - PiecesLen(<<V_free>>))>>,
                          {[a |-> 4096, b |-> 8192, c |-> "FF"]}) :
                d \in regions}
       \cup {IntelImageOf(Descriptor(6, 4, 3, "20MHz", none, RegionOf(4, 4096, 16384)),
                          12288, 4096, <<V_free, Free(8192 - PiecesLen(<<V_free>>))>>, {})}
       \cup {IntelImageOf(d, FLASH_DESCRIPTOR_SIZE, FLASH_DESCRIPTOR_SIZE, <<>>, {}) :
                d \in descriptors}
       \cup {UefiImageOf(ps, NoCapsule, "none") : ps \in early}
       \cup {UefiImageOf(<<Vol(2, "ffs2", <<File("DRIVER", "g4", {}, <<packed>>), F_vtf>>),
                          Free(16)>>, NoCapsule, "none") :
                packed \in {Comp("COMPRESSION", 40, <<Sec(16), Sec(12)>>, <<Sec(20)>>)}}
       \cup {UefiImageOf(<<Vol(2, "ffs2", inner \o <<F_vtf>>)>>, NoCapsule, "none") :
                inner \in {<<Free(24)>>, <<Data(16)>>, <<F_short, Free(4), Data(16)>>}}

\* too small to be parsed at all
TinyImages == {UefiImageOf(<<Data(28)>>, NoCapsule, "none")}

Images ==
    {UefiImageOf(ps, NoCapsule, k) : ps \in RawAreas, k \in {"fit"}}
    \cup {UefiImageOf(<<Vol(2, "ffs2", <<F_fit("ok"), F_driver, F_vtf>>)>>, NoCapsule, "none")}
    \cup CapsuledImages \cup IntelImages \cup TinyImages \cup PackedImages \cup Ffs3Images
    \cup BoundaryImages

\* ------------------------------------------------------------------------
\* FfsParser::parse and UEFIExtract::dump, one step per pass
\* ------------------------------------------------------------------------
Init ==
    /\ engine \in {"part003", "common"}
    /\ image \in Images
    /\ pc = "start"
    /\ model = EmptyModel
    /\ messages = <<>>
    /\ lastVtf = NoIndex
    /\ root = NoIndex
    /\ firstResult = "none"
    /\ result = "none"
    /\ rawLog = <<>>
    /\ loopLog = <<>>
    /\ preparseLog = <<>>
    /\ calls = 1
    /\ fitTable = <<>>
    /\ dumpResult = "none"
    /\ initialized = FALSE

\* the parser object as the passes after the first find it
StateOf ==
    [ParserState(engine, image) EXCEPT !.m = model, !.msgs = messages, !.lastVtf = lastVtf,
                                       !.log = rawLog, !.steps = loopLog,
                                       !.preparses = preparseLog,
                                       !.fitTable = fitTable]

\* what the unassigned reserved4.type of parseIntelImage may hold: the
\* subtype meant for it, the subtype of another region, the subtype of a
\* padding, or a value that is no subtype of a region
Reserved4Types == {"Reserved4Region", "BiosRegion", "ZeroPadding", "Unknown"}

\* parse: result = performFirstPass(buffer, root)
FirstPass ==
    /\ pc = "start"
    /\ \E type \in Reserved4Types :
       \E r \in {performFirstPass([StateOf EXCEPT !.reserved4type = type])} :
          /\ model' = r.st.m
          /\ messages' = r.st.msgs
          /\ lastVtf' = r.st.lastVtf
          /\ rawLog' = r.st.log
          /\ loopLog' = r.st.steps
          /\ preparseLog' = r.st.preparses
          /\ root' = r.root
          /\ firstResult' = r.st.ret
          /\ pc' = IF r.st.ret = "NO_RETURN" THEN "aborted" ELSE "firstPass"
    /\ UNCHANGED <<engine, image, result, fitTable, dumpResult, initialized, calls>>

\* parse: addOffsetsRecursive(root); if (result) return result
AddOffsets ==
    /\ pc = "firstPass"
    /\ model' = addOffsetsRecursive(engine, model, root)
    /\ IF firstResult # "SUCCESS"
       THEN result' = firstResult /\ pc' = "parsed"
       ELSE result' = result /\ pc' = "offsets"
    /\ UNCHANGED <<engine, image, messages, lastVtf, root, firstResult, rawLog, loopLog, preparseLog, calls, fitTable,
                   dumpResult, initialized>>

\* parse: if (lastVtf.isValid()) result = performSecondPass(root)
SecondPass ==
    LET returned(s) ==
            /\ model' = s.m
            /\ messages' = s.msgs
            /\ fitTable' = s.fitTable
            /\ result' = s.ret
    IN /\ pc = "offsets"
       /\ lastVtf # NoIndex
       /\ returned(performSecondPass(StateOf, root))
       /\ pc' = "parsed"
       /\ UNCHANGED <<engine, image, lastVtf, root, firstResult, rawLog, loopLog, preparseLog, calls, dumpResult,
                      initialized>>

\* parse: else msg("parse: not a single Volume Top File is found ...")
NoVtf ==
    /\ pc = "offsets"
    /\ lastVtf = NoIndex
    /\ messages' = msg(StateOf, "parse: not a single Volume Top File is found", NoIndex).msgs
    /\ result' = firstResult
    /\ pc' = "parsed"
    /\ UNCHANGED <<engine, image, model, lastVtf, root, firstResult, rawLog, loopLog, preparseLog, calls, fitTable,
                   dumpResult, initialized>>

\* model.index(0, 0)
FirstTopItem(m) == IF m.kids[0] = <<>> THEN NoIndex ELSE m.kids[0][1]

\* UEFIExtract::dump up to the FIT table: the status of ffsParser.parse,
\* then fitParser.parse(model.index(0, 0), ffsParser.getLastVtf())
DumpFit ==
    LET returned(s) ==
            /\ model' = s.m
            /\ messages' = s.msgs
            /\ fitTable' = s.fitTable
            /\ IF s.ret # "SUCCESS"
               THEN dumpResult' = s.ret /\ pc' = "done"
               ELSE dumpResult' = dumpResult /\ pc' = "fit"
    IN /\ pc = "parsed"
       /\ engine = "common"
       /\ IF result # "SUCCESS"
          THEN dumpResult' = result /\ pc' = "done"
               /\ UNCHANGED <<model, messages, fitTable>>
          ELSE returned(FitParser_parse(StateOf, FirstTopItem(model), lastVtf))
       /\ UNCHANGED <<engine, image, lastVtf, root, firstResult, result, rawLog, loopLog, preparseLog, calls,
                      initialized>>

\* UEFIExtract::dump after the FIT table: initialized = true, then
\* recursiveDump with an empty guid into a directory that does not exist
\* yet writes every item and returns success
DumpItems ==
    /\ pc = "fit"
    /\ initialized' = TRUE
    /\ dumpResult' = "SUCCESS"
    /\ pc' = "done"
    /\ UNCHANGED <<engine, image, model, messages, lastVtf, root, firstResult, result,
                   rawLog, loopLog, preparseLog, calls, fitTable>>

\* wmain: the next turn of "for (int i = 2; i < argc; i++)
\* uefiextract.dump(buffer, path, argv[i])" on the same instance.  With
\* initialized set dump goes to recursiveDump at once, which returns success
\* or, when no file has the GUID asked for, ITEM_NOT_FOUND; without it dump
\* calls ffsParser.parse(buffer) again, on the parser and the tree as the
\* call before left them.
DumpNext ==
    /\ pc = "done"
    /\ engine = "common"
    /\ calls < MaxCalls
    /\ calls' = calls + 1
    /\ IF initialized
       THEN /\ \E found \in BOOLEAN :
                  dumpResult' = IF found THEN "SUCCESS" ELSE "ITEM_NOT_FOUND"
            /\ pc' = "done"
       ELSE /\ dumpResult' = dumpResult
            /\ pc' = "start"
    /\ UNCHANGED <<engine, image, model, messages, lastVtf, root, firstResult, result,
                   rawLog, loopLog, preparseLog, fitTable, initialized>>

Next == FirstPass \/ AddOffsets \/ SecondPass \/ NoVtf \/ DumpFit \/ DumpItems

Spec == Init /\ [][Next]_vars

\* the tool called with GUID arguments: dump is called once per argument
NextCalls ==
    FirstPass \/ AddOffsets \/ SecondPass \/ NoVtf \/ DumpFit \/ DumpItems \/ DumpNext

SpecCalls == Init /\ [][NextCalls]_vars

\* ------------------------------------------------------------------------
\* Properties
\* ------------------------------------------------------------------------

\* C1: after the first pass the children of every node are in ascending
\* offset order and do not overlap: each child starts at or after the end
\* (offset + header + body + tail) of the child before it.
C1_SiblingsDoNotOverlap ==
    pc # "start" =>
        \A p \in {0} \cup ItemIds(model) :
            \A k \in 1..(Len(model.kids[p]) - 1) :
                LET a == model.items[model.kids[p][k]]
                    b == model.items[model.kids[p][k + 1]]
                IN b.offset >= a.offset + ItemSize(a)

\* the n bytes at position s1 of the image equal the n bytes at position s2
SameBytes(img, s1, s2, n) ==
    \/ s1 = s2
    \/ \E c \in {"FF", "00"} : Covered(img, s1, s1 + n, c) /\ Covered(img, s2, s2 + n, c)

\* header + body + tail of the item are the bytes [offset, offset + size)
BitExact(img, it) ==
    /\ it.offset >= 0
    /\ it.offset + ItemSize(it) <= img.size
    /\ it.header.n > 0 => SameBytes(img, it.header.s, it.offset, it.header.n)
    /\ it.body.n > 0 => SameBytes(img, it.body.s, it.offset + it.header.n, it.body.n)
    /\ it.tail.n > 0 =>
          SameBytes(img, it.tail.s, it.offset + it.header.n + it.body.n, it.tail.n)

\* C3: for every non-compressed node the parser creates, header + body +
\* tail are the bytes of the image in [offset, offset + size), offset being
\* the absolute offset recorded for the node.
C3_BitExact ==
    pc # "start" =>
        \A i \in ItemIds(model) :
            ~model.items[i].compressed => BitExact(image, model.items[i])

\* C5: the value a raw-area walk returns is the first error met in the
\* area (a volume whose header fails to parse, whose size cannot be
\* determined or that is truncated), not success and not a later status.
C5_FirstErrorPreserved ==
    \A k \in 1..Len(rawLog) :
        rawLog[k].firstError # "SUCCESS" => rawLog[k].ret = rawLog[k].firstError

\* positions of the well-formed volumes among the pieces of a raw area
RECURSIVE GoodVolumes(_, _)
GoodVolumes(ps, at) ==
    IF ps = <<>> THEN {}
    ELSE (IF Head(ps).k = "vol" /\ WellFormedPiece(Head(ps), "raw") THEN {at} ELSE {})
         \cup GoodVolumes(Tail(ps), at + PieceLen(Head(ps)))

\* C6: whatever fails in a raw area, every well-formed volume of the area
\* is emitted as a Volume node and has its body parsed (its files and free
\* space are its children).
C6_SiblingsContinue ==
    (pc # "start" /\ rawLog # <<>>) =>
        \A at \in GoodVolumes(image.pieces, image.base) :
            \E i \in ItemIds(model) :
                /\ model.items[i].type = "Volume"
                /\ model.items[i].header.s = at
                /\ model.kids[i] # <<>>

\* C7: when the first pass succeeded the later passes cannot fail the
\* parse: parse returns success and so does UEFIExtract::dump.
C7_LaterPassesNeverFail ==
    firstResult = "SUCCESS" =>
        /\ pc \in {"parsed", "fit", "done"} => result = "SUCCESS"
        /\ pc = "done" => dumpResult = "SUCCESS"

\* positions of the volumes whose FvLength passes the end of the raw area
RECURSIVE TruncatedVolumes(_, _)
TruncatedVolumes(ps, at) ==
    IF ps = <<>> THEN {}
    ELSE (IF Head(ps).k = "vol" /\ PieceLen(Head(ps)) + Head(ps).extra > PiecesLen(ps)
          THEN {at} ELSE {})
         \cup TruncatedVolumes(Tail(ps), at + PieceLen(Head(ps)))

TruncationWarning == "parseRawArea: one of volumes inside overlaps the end of data"

\* C10: where a volume's FvLength exceeds the bytes left in the raw area,
\* the walker emits a Padding node that covers the bytes left and logs the
\* warning "one of volumes inside overlaps the end of data" on it.
C10_TruncatedVolumePadded ==
    (pc # "start" /\ rawLog # <<>>) =>
        \A at \in TruncatedVolumes(image.pieces, image.base) :
            \E i \in ItemIds(model) :
                /\ model.items[i].type = "Padding"
                /\ model.items[i].body.s = at
                /\ model.items[i].body.s + model.items[i].body.n = image.size
                /\ \E k \in 1..Len(messages) :
                      messages[k].text = TruncationWarning /\ messages[k].index = i

\* a well-formed input: no flash descriptor, a well-formed raw area that
\* holds a volume, and either no capsule or a capsule header of the
\* standard size whose image size is the size of the input
WellFormedImage(img) ==
    /\ ~img.desc.sig
    /\ WellFormed(img.pieces, "raw")
    /\ \E i \in 1..Len(img.pieces) : img.pieces[i].k = "vol"
    /\ \/ img.capsule.kind = "none"
       \/ /\ img.capsule.HeaderSize = sizeofCapsuleHeader
          /\ img.capsule.CapsuleImageSize = img.size

\* sum of f over the items S
RECURSIVE SumOf(_, _)
SumOf(f, S) ==
    IF S = {} THEN 0
    ELSE LET i == CHOOSE x \in S : TRUE IN f[i] + SumOf(f, S \ {i})

IsLeaf(m, i) == m.kids[i] = <<>>

\* header + body + tail sizes summed over the leaf nodes
LeafSum(m) ==
    SumOf([i \in ItemIds(m) |-> IF IsLeaf(m, i) THEN ItemSize(m.items[i]) ELSE 0], ItemIds(m))

\* header + tail sizes summed over the nodes that have children
FrameSum(m) ==
    SumOf([i \in ItemIds(m) |->
              IF IsLeaf(m, i) THEN 0 ELSE m.items[i].header.n + m.items[i].tail.n],
          ItemIds(m))

\* where the bytes of an item start and end in the image; an item without
\* bytes lies at its offset
StartOf(it) ==
    IF it.header.n > 0 THEN it.header.s ELSE IF it.body.n > 0 THEN it.body.s ELSE it.offset

EndOf(it) == StartOf(it) + it.header.n + it.body.n + it.tail.n

\* the bytes of the body of p between the end of its k-th child and the
\* start of the next child (the end of the body after the last child)
GapAfter(m, p, k) ==
    LET kid == m.items[m.kids[p][k]]
    IN IF k < Len(m.kids[p])
       THEN StartOf(m.items[m.kids[p][k + 1]]) - EndOf(kid)
       ELSE m.items[p].body.s + m.items[p].body.n - EndOf(kid)

GapsOf(m, p) ==
    SumOf([k \in 1..Len(m.kids[p]) |-> GapAfter(m, p, k)], 1..Len(m.kids[p]))

GapSum(m) == SumOf([p \in ItemIds(m) |-> GapsOf(m, p)], ItemIds(m))

\* the largest gap the alignment of the children of p leaves: files are
\* aligned to 8 bytes in a volume, sections to 4 bytes in a file
MaxGap(m, p) ==
    CASE m.items[p].type = "Volume" -> 7
      [] m.items[p].type \in {"File", "Section"} -> 3
      [] OTHER -> 0

DescriptorRejected ==
    /\ image.desc.sig
    /\ parseIntelImage(ParserState(engine, image), View(0, image.size), 0, NoIndex).ret
          = "INVALID_FLASH_DESCRIPTOR"

SameShape(m1, m2) ==
    /\ Len(m1.items) = Len(m2.items)
    /\ m1.kids = m2.kids
    /\ \A i \in ItemIds(m1) :
          LET a == m1.items[i]
              b == m2.items[i]
          IN /\ a.type = b.type /\ a.subtype = b.subtype /\ a.offset = b.offset
             /\ a.header = b.header /\ a.body = b.body /\ a.tail = b.tail
             /\ a.compressed = b.compressed /\ a.action = b.action
             /\ a.parent = b.parent

\* C9 (as stated): once the first pass is over, no step changes the set of
\* nodes, their order or any of the fields type, subtype, offset, header,
\* body, tail, fixed, compressed and action; only info, parsingData and
\* marking change.
C9_LaterPassesOnlyAnnotate ==
    [][pc # "start" =>
          /\ SameShape(model, model')
          /\ \A i \in ItemIds(model) : model'.items[i].fixed = model.items[i].fixed]_vars

\* C9 (amended): once the first pass is over, no step changes the set of
\* nodes, their order or any of the fields type, subtype, offset, header,
\* body, tail, compressed and action; of the flag fixed a later pass only
\* sets it (FIT parsing marks the item that holds the FIT table, and with
\* it its parent, as fixed) and never clears it.
C9_LaterPassesAnnotateAndFix ==
    [][pc # "start" =>
          /\ SameShape(model, model')
          /\ \A i \in ItemIds(model) : model.items[i].fixed => model'.items[i].fixed]_vars

\* the second pass has run and has marked a file as fixed whose header
\* does not carry the attribute FIXED
C9_Witness ==
    /\ pc = "parsed"
    /\ fitTable # <<>>
    /\ \E i \in ItemIds(model) :
          /\ model.items[i].type = "File"
          /\ model.items[i].fixed
          /\ model.items[i].info # <<>>
          /\ HasFileAt(image, model.items[i].header.s)
          /\ "FIXED" \notin FileHeaderAt(image, model.items[i].header.s).attrs

\* ------------------------------------------------------------------------
\* C11
\* ------------------------------------------------------------------------
\* the buffer is a run of whole sections from offset o to its end
RECURSIVE CleanSections(_, _, _)
CleanSections(img, buf, o) ==
    \/ o >= buf.n
    \/ /\ buf.n >= o + sizeofSectionHeader
       /\ HasSectionAt(img, buf.s + o)
       /\ SectionHeaderAt(img, buf.s + o).Size >= sizeofSectionHeader
       /\ SectionHeaderAt(img, buf.s + o).Size <= buf.n - o
       /\ SectionHeaderAt(img, buf.s + o).Type = "COMPATIBILITY16"
       /\ CleanSections(img, buf, ALIGN4(o + SectionHeaderAt(img, buf.s + o).Size))

\* the packed streams under the body of the encapsulation section i
StreamsOf(i) ==
    {x \in image.content.packed :
        x.at = model.items[i].body.s /\ x.n = model.items[i].body.n}

\* the section nodes under i are the sections of the buffer, in order, and
\* nothing else is under i
ParsedFrom(i, buf) ==
    LET kids == model.kids[i]
        at(k) == model.items[kids[k]].header.s
    IN /\ kids # <<>>
       /\ \A k \in 1..Len(kids) :
             /\ model.items[kids[k]].type = "Section"
             /\ HasSectionAt(image, at(k))
             /\ model.items[kids[k]].header.n + model.items[kids[k]].body.n
                    = SectionHeaderAt(image, at(k)).Size
             /\ at(k) = IF k = 1 THEN buf.s
                        ELSE ALIGN4(at(k - 1) + SectionHeaderAt(image, at(k - 1)).Size)
       /\ ALIGN4(at(Len(kids)) + SectionHeaderAt(image, at(Len(kids))).Size)
              >= buf.s + buf.n

Chose(i, algorithm, buf) ==
    /\ \E k \in 1..Len(model.items[i].info) :
          model.items[i].info[k] = [k |-> "Compression algorithm", v |-> algorithm]
    /\ model.items[i].subtype = "COMPRESSION" =>
          model.items[i].pdata.algorithm = (IF algorithm = "Tiano" THEN "TIANO" ELSE "EFI11")
    /\ ParsedFrom(i, buf)

\* C11: for every compression section and every Tiano GUID-defined section
\* whose stream decodes with an undecided algorithm: when the Tiano output is
\* a clean run of sections, Tiano is recorded and the Tiano output is parsed
\* into the child sections (also when the EFI 1.1 output is clean as well);
\* when only the EFI 1.1 output is clean, EFI 1.1 is recorded and its output
\* is parsed into the child sections
C11_PreparseSelectsAlgorithm ==
    \A i \in ItemIds(model) :
        (model.items[i].type = "Section"
         /\ model.items[i].subtype \in {"COMPRESSION", "GUID_DEFINED"}) =>
            \A x \in StreamsOf(i) :
                /\ CleanSections(image, x.tiano, 0) => Chose(i, "Tiano", x.tiano)
                /\ (~CleanSections(image, x.tiano, 0) /\ CleanSections(image, x.efi, 0))
                       => Chose(i, "EFI 1.1", x.efi)

\* one file holds a section of which only the EFI 1.1 output is clean and a
\* section of which both outputs are clean, and both have been parsed
C11_Witness ==
    \E i, j \in ItemIds(model) :
        /\ model.items[i].type = "Section" /\ model.items[j].type = "Section"
        /\ \E x \in StreamsOf(i) :
              /\ ~CleanSections(image, x.tiano, 0) /\ CleanSections(image, x.efi, 0)
              /\ Chose(i, "EFI 1.1", x.efi)
        /\ \E y \in StreamsOf(j) :
              /\ CleanSections(image, y.tiano, 0) /\ CleanSections(image, y.efi, 0)
              /\ Chose(j, "Tiano", y.tiano)

\* ------------------------------------------------------------------------
\* C12
\* ------------------------------------------------------------------------
\* the file headers under the body of the FFSv3 volume v that carry
\* LARGE_FILE and whose ExtendedSize ends before the extended header does
TruncatedLargeFiles(v) ==
    {f \in image.content.files :
        /\ model.items[v].body.s <= f.at
        /\ f.at + sizeofFileHeader2 <= model.items[v].body.s + model.items[v].body.n
        /\ "LARGE" \in f.attrs
        /\ f.ExtendedSize >= sizeofFileHeader
        /\ f.ExtendedSize < sizeofFileHeader2}

\* the file header g has its File node under v
HasFileNode(v, g) ==
    \E k \in 1..Len(model.kids[v]) :
        LET it == model.items[model.kids[v][k]]
        IN /\ it.type = "File"
           /\ it.header.s = g.at
           /\ ItemSize(it) = IF "LARGE" \in g.attrs THEN g.ExtendedSize ELSE g.Size

\* C12: in an FFSv3 volume, for a file with LARGE_FILE whose bytes end before
\* the extended header does, parseFileHeader returns INVALID_FILE and leaves
\* the tree as it was; the parse has made no node for the file, has logged
\* the failure on the volume, and the files before it in the volume have
\* their File nodes
C12_TruncatedLargeFileRejected ==
    \A v \in ItemIds(model) :
        (model.items[v].type = "Volume" /\ model.items[v].pdata.ffsVersion = 3) =>
            \A f \in TruncatedLargeFiles(v) :
                /\ \A r \in {parseFileHeader(StateOf,
                                             View(f.at, f.ExtendedSize),
                                             model.items[v].header.n
                                                 + f.at - model.items[v].body.s, v)} :
                      r.ret = "INVALID_FILE" /\ r.m = model
                /\ \A i \in ItemIds(model) :
                      ~(model.items[i].type = "File" /\ model.items[i].header.s = f.at)
                /\ \E k \in 1..Len(messages) :
                      messages[k] = [text |-> "parseVolumeBody: file header parsing failed",
                                     index |-> v]
                /\ \A g \in image.content.files :
                      (model.items[v].body.s <= g.at /\ g.at < f.at) => HasFileNode(v, g)

\* an FFSv3 volume holds a File node, then a truncated large file, then
\* another File node
C12_Witness ==
    \E v \in ItemIds(model) :
        /\ model.items[v].type = "Volume" /\ model.items[v].pdata.ffsVersion = 3
        /\ \E f \in TruncatedLargeFiles(v) :
              /\ \E g \in image.content.files : g.at < f.at /\ HasFileNode(v, g)
              /\ \E g \in image.content.files : g.at > f.at /\ HasFileNode(v, g)
              /\ \E k \in 1..Len(messages) :
                    messages[k] = [text |-> "parseVolumeBody: file header parsing failed",
                                   index |-> v]

\* ------------------------------------------------------------------------
\* C13
\* ------------------------------------------------------------------------
\* the volume headers of the image whose volume lies whole in the image and
\* whose HeaderLength is the length of the volume plus d
HeadersAtEnd(d) ==
    {f \in image.content.fvs :
        /\ f.sig - EFI_FV_SIGNATURE_OFFSET >= image.base
        /\ f.sig - EFI_FV_SIGNATURE_OFFSET + f.FvLength <= image.size
        /\ f.HeaderLength = f.FvLength + d}

\* parseVolumeHeader has made the volume of f a Volume node, and returns
\* success for its bytes
VolumeAccepted(f) ==
    /\ \E i \in ItemIds(model) :
          /\ model.items[i].type = "Volume"
          /\ model.items[i].header.s = f.sig - EFI_FV_SIGNATURE_OFFSET
          /\ ItemSize(model.items[i]) = f.FvLength
    /\ parseVolumeHeader(StateOf, View(f.sig - EFI_FV_SIGNATURE_OFFSET, f.FvLength), 0,
                         root).ret = "SUCCESS"

\* parseVolumeHeader has made no node for the volume of f, and returns
\* INVALID_VOLUME for its bytes and leaves the tree as it was
VolumeRejected(f) ==
    /\ \A i \in ItemIds(model) :
          ~(model.items[i].type = "Volume"
            /\ model.items[i].header.s = f.sig - EFI_FV_SIGNATURE_OFFSET)
    /\ \E k \in 1..Len(messages) :
          messages[k].text = "parseVolumeHeader: volume header overlaps the end of data"
    /\ \A r \in {parseVolumeHeader(StateOf,
                                   View(f.sig - EFI_FV_SIGNATURE_OFFSET, f.FvLength), 0,
                                   root)} :
          r.ret = "INVALID_VOLUME" /\ r.m = model

\* C13 as stated: a volume whose HeaderLength equals the length of its bytes
\* is accepted, and one whose HeaderLength is that length plus one is
\* rejected with INVALID_VOLUME
C13_HeaderLengthAtEndAccepted ==
    (pc # "start" /\ root # NoIndex) =>
        /\ \A f \in HeadersAtEnd(0) : VolumeAccepted(f)
        /\ \A f \in HeadersAtEnd(1) : VolumeRejected(f)

\* C13 as amended: a volume whose HeaderLength equals the length of its bytes
\* is accepted when that length is a multiple of 8 and rejected with
\* INVALID_VOLUME otherwise (HeaderLength is rounded up to 8 before it is
\* compared); one whose HeaderLength is that length plus one is rejected
\* with INVALID_VOLUME
C13_AlignedHeaderLengthAtEndAccepted ==
    (pc # "start" /\ root # NoIndex) =>
        /\ \A f \in HeadersAtEnd(0) :
              IF f.FvLength % 8 = 0 THEN VolumeAccepted(f) ELSE VolumeRejected(f)
        /\ \A f \in HeadersAtEnd(1) : VolumeRejected(f)

\* a volume of 80 bytes with HeaderLength 80 has been parsed
C13_Witness ==
    /\ pc # "start" /\ root # NoIndex
    /\ \E f \in HeadersAtEnd(0) : f.FvLength = 80 /\ VolumeAccepted(f)

\* ------------------------------------------------------------------------
\* C14
\* ------------------------------------------------------------------------
\* C14: once an image of exactly 4096 bytes with a valid flash descriptor
\* signature has been parsed, the tree is an Intel image whose only child is
\* the Descriptor region, and no UEFI image (the raw-area fallback) is in it
C14_DescriptorRegionOnly ==
    (pc # "start" /\ image.desc.sig /\ image.size = FLASH_DESCRIPTOR_SIZE) =>
        /\ root # NoIndex
        /\ model.items[root].type = "Image"
        /\ model.items[root].subtype = "IntelImage"
        /\ Len(model.kids[root]) = 1
        /\ model.items[model.kids[root][1]].type = "Region"
        /\ model.items[model.kids[root][1]].subtype = "DescriptorRegion"
        /\ \A i \in ItemIds(model) : model.items[i].subtype # "UefiImage"

\* ------------------------------------------------------------------------
\* C15
\* ------------------------------------------------------------------------
\* C15: every row of the FIT table holds exactly six strings, in the order
\* address (the signature, in the header row), size, version, checksum,
\* type, info
C15_FitRowsOfSixStrings ==
    \A k \in 1..Len(fitTable) :
        /\ Len(fitTable[k].strings) = 6
        /\ SubSeq(fitTable[k].strings, 2, 5) = <<"size", "version", "checksum", "type">>

\* ------------------------------------------------------------------------
\* C16: the boundary rule of setFixed(node, true)
\* ------------------------------------------------------------------------
\* The rule as the claim words it: set the node; copy the parent's flag and
\* stop when the node is not compressed and the parent is; otherwise go on
\* with the parent unless the parent is the root.
RECURSIVE ClaimedSetFixed(_, _)
ClaimedSetFixed(m, index) ==
    LET m1 == SetItemFixed(m, index, TRUE)
        p  == m.items[index].parent
    IN IF ~m1.items[index].compressed /\ ItemAt(m1, p).compressed
       THEN SetItemFixed(m1, index, ItemAt(m1, p).fixed)
       ELSE IF ItemAt(m1, p).type # "Root"
            THEN ClaimedSetFixed(m1, p)
            ELSE m1

RECURSIVE SkippedHits(_, _, _)
SkippedHits(ps, at, base) ==
    IF ps = <<>> THEN {}
    ELSE (IF \/ Head(ps).k = "vol" /\ Head(ps).rev \notin {1, 2}
             \/ Head(ps).k = "ovl"
                /\ at - Head(ps).back + EFI_FV_SIGNATURE_OFFSET - base < EFI_FV_SIGNATURE_OFFSET
          THEN {at} ELSE {})
         \cup SkippedHits(Tail(ps), at + PieceLen(Head(ps)), base)

\* C17: in a raw area a signature hit whose candidate header fails
\* validation, or that lies fewer than 40 bytes from the start of the area,
\* is skipped and the scan goes on: every well-formed volume after such a
\* hit is a Volume child of the area.
C17_SkippedHitsDoNotHideVolumes ==
    (pc # "start" /\ rawLog # <<>>) =>
        \A at \in GoodVolumes(image.pieces, image.base) :
            (\E hit \in SkippedHits(image.pieces, image.base, image.base) : hit < at)
            => \E i \in ItemIds(model) :
                  /\ model.items[i].type = "Volume"
                  /\ model.items[i].header.s = at
                  /\ model.items[i].parent = rawLog[Len(rawLog)].index

\* ------------------------------------------------------------------------
\* C18: memory addresses
\* ------------------------------------------------------------------------
SecondPassRan ==
    /\ pc \in {"parsed", "fit", "done"}
    /\ firstResult = "SUCCESS"
    /\ lastVtf # NoIndex
    /\ ~model.items[lastVtf].compressed

\* the end of the last VTF in the image: addressDiff is 2^32 less this
VtfEnd == model.items[lastVtf].offset + ItemSize(model.items[lastVtf])

AddressKeys == {"Header memory address", "Data memory address", "Memory address"}

AddressesOf(i) ==
    {model.items[i].info[k] : k \in {j \in 1..Len(model.items[i].info) :
                                        model.items[i].info[j].k \in AddressKeys}}

\* C18: with addressDiff = 0xFFFFFFFF - vtf.offset - vtfSize + 1 the second
\* pass writes a memory address on a node only if the node is not compressed
\* and offset + addressDiff, taken exactly, does not pass 0xFFFFFFFF, which
\* is when the node starts before the end of the last VTF; the address of a
\* node is then 2^32 less its distance to that end, and a node that starts at
\* or after the end of the last VTF gets no address.
C18_AddressNeverWraps ==
    SecondPassRan =>
        \A i \in ItemIds(model) :
            /\ AddressesOf(i) # {}
                  => /\ ~model.items[i].compressed
                     /\ model.items[i].offset < VtfEnd
            /\ \A a \in AddressesOf(i) :
                  a.v = model.items[i].offset - VtfEnd
                        + (IF a.k = "Data memory address" THEN model.items[i].header.n ELSE 0)
            /\ model.items[i].offset >= VtfEnd => AddressesOf(i) = {}

\* the second pass has run over a tree with a compressed node, a node after
\* the end of the last VTF, neither with an address, and a node with one
C18_Witness ==
    /\ SecondPassRan
    /\ \E i \in ItemIds(model) : model.items[i].compressed /\ AddressesOf(i) = {}
    /\ \E i \in ItemIds(model) :
          /\ ~model.items[i].compressed
          /\ model.items[i].offset >= VtfEnd
          /\ AddressesOf(i) = {}
    /\ \E i \in ItemIds(model) : AddressesOf(i) # {}

\* ------------------------------------------------------------------------
\* C19: sections with an extended header
\* ------------------------------------------------------------------------
\* the sections of the image whose Size field is FFFFFFh; the images have
\* them in FFSv3 volumes only
ExtendedSections == {x \in image.content.secs : x.Size = 16777215}

\* C19: a section of an FFSv3 volume whose 24-bit Size is FFFFFFh is a
\* Section node of ExtendedSize bytes, as the section walk delimits it, and
\* the header of the node is the extended header: 8 bytes for a common
\* section.
C19_ExtendedSectionHeader ==
    (pc # "start" /\ firstResult = "SUCCESS") =>
        \A x \in ExtendedSections :
            \E i \in ItemIds(model) :
                /\ model.items[i].type = "Section"
                /\ model.items[i].header.s = x.at
                /\ ItemSize(model.items[i]) = x.ExtendedSize
                /\ model.items[i].header.n = sizeofSectionHeader2

\* ------------------------------------------------------------------------
\* C20: non-UEFI data inside a volume
\* ------------------------------------------------------------------------
\* the headers of volume top files that lie in the bytes ba with a whole
\* file header after the GUID
VtfHeadersIn(ba) ==
    {f \in image.content.files :
        /\ f.guid = "vtf"
        /\ ba.s <= f.at
        /\ f.at + sizeofFileHeader <= ba.s + ba.n}

\* C20: non-UEFI data inside a volume is split at the last Volume-Top-File
\* GUID that is followed by a file header: the bytes before it are the
\* "Non-UEFI data" padding and the bytes from it on are parsed as a File, so
\* no such padding of a volume holds the header of a volume top file and
\* the volume top file is a File child of the volume.
C20_SplitAtVolumeTopFile ==
    pc # "start" =>
        \A i \in ItemIds(model) :
            (/\ model.items[i].type = "Padding"
             /\ model.items[i].subtype = "DataPadding"
             /\ ItemAt(model, model.items[i].parent).type = "Volume")
            => \A f \in VtfHeadersIn(model.items[i].body) :
                  /\ f.at = model.items[i].body.s + model.items[i].body.n
                  /\ \E j \in ItemIds(model) :
                        /\ model.items[j].type = "File"
                        /\ model.items[j].header.s = f.at
                        /\ model.items[j].parent = model.items[i].parent

\* ------------------------------------------------------------------------
\* C21: a region of the descriptor is put into the region list if and only
\* if its Limit is not zero and its Base and Limit are not both FFFFh, the
\* same rule for every kind of region.  Read off the parse of an image with
\* a valid descriptor, for the kinds that do not depend on the descriptor
\* version: when the first pass succeeds with an Intel image in the tree, a
\* Region node of a kind exists
\* exactly if the rule includes the region, and when every region the rule
\* includes lies inside the image the image is not reported truncated.
\* ------------------------------------------------------------------------
RuleIncludes(r) == r.limit # 0 /\ ~(r.base = 65535 /\ r.limit = 65535)

KindsOfRule ==
    {[field |-> "me", subtype |-> "MeRegion"], [field |-> "bios", subtype |-> "BiosRegion"],
     [field |-> "gbe", subtype |-> "GbeRegion"],
     [field |-> "reserved1", subtype |-> "Reserved1Region"]}

HasRegionNode(subtype) ==
    \E i \in ItemIds(model) :
        model.items[i].type = "Region" /\ model.items[i].subtype = subtype

C21_OneInclusionRule ==
    (pc # "start" /\ image.desc.sig) =>
        /\ (firstResult = "SUCCESS"
            /\ \E i \in ItemIds(model) : model.items[i].subtype = "IntelImage") =>
              \A kind \in KindsOfRule :
                  RuleIncludes(image.desc[kind.field]) <=> HasRegionNode(kind.subtype)
        /\ (\A kind \in KindsOfRule :
                RuleIncludes(image.desc[kind.field]) =>
                    image.desc[kind.field].offset + image.desc[kind.field].length
                        <= image.size)
              => firstResult # "TRUNCATED_IMAGE"

\* ------------------------------------------------------------------------
\* C24: when a v2 descriptor (ReadClockFrequency 17 MHz) declares a
\* Reserved3 and a Reserved4 region and the Intel image is parsed, the node
\* made of the Reserved3 region has subtype Reserved3 and the node made of
\* the Reserved4 region has subtype Reserved4.
\* ------------------------------------------------------------------------
RegionNodeAt(offset, subtype) ==
    \E i \in ItemIds(model) :
        /\ model.items[i].type = "Region"
        /\ model.items[i].subtype = subtype
        /\ model.items[i].offset = offset

C24_ReservedSubtypes ==
    (/\ pc # "start"
     /\ image.desc.sig
     /\ image.desc.ReadClockFrequency = "17MHz"
     /\ image.desc.reserved3.limit # 0
     /\ image.desc.reserved4.limit # 0
     /\ \E i \in ItemIds(model) : model.items[i].subtype = "IntelImage") =>
        /\ RegionNodeAt(image.desc.reserved3.offset, "Reserved3Region")
        /\ RegionNodeAt(image.desc.reserved4.offset, "Reserved4Region")

\* ------------------------------------------------------------------------
\* C29: an image whose descriptor declares a region (ME, BIOS or GbE, which
\* are listed whenever their Limit is not zero) that ends after the end of
\* the image is rejected before anything is made of its regions: the tree
\* holds neither an Intel image nor a Region node.  Descriptors
\* of the Gigabyte kind, whose BIOS region is as long as the image and is
\* placed anew by the parser, are left aside.
\* ------------------------------------------------------------------------
DeclaredPastEnd ==
    \E field \in {"me", "bios", "gbe"} :
        /\ image.desc[field].limit # 0
        /\ image.desc[field].offset + image.desc[field].length > image.size

C29_RegionsInsideImage ==
    (pc # "start" /\ image.desc.sig /\ image.desc.bios.length # image.size
     /\ DeclaredPastEnd) =>
        \A i \in ItemIds(model) :
            model.items[i].type # "Region" /\ model.items[i].subtype # "IntelImage"

\* ------------------------------------------------------------------------
\* C22: when the FIT leads to a key manifest and to a boot policy, the
\* message "BootPolicy key hash stored in KeyManifest differs from the hash
\* of public key stored in BootPolicy" is logged by the second pass exactly
\* when the hash the key manifest stores differs from the SHA-256 of the
\* public key of the boot policy.
\* ------------------------------------------------------------------------
FitEntries ==
    IF image.content.fits = {} THEN <<>>
    ELSE (CHOOSE f \in image.content.fits : TRUE).entries

ValidEntries(type) ==
    {FitEntries[i] : i \in {j \in 1..Len(FitEntries) :
                               FitEntries[j].Type = type /\ FitEntries[j].item = "valid"}}

KeyHashMismatchLogged ==
    \E k \in 1..Len(messages) :
        messages[k].text = "parseBootGuardData: BootPolicy key hash stored in KeyManifest differs from the hash of public key stored in BootPolicy"

C22_KeyHashesCompared ==
    (engine = "part003" /\ pc \in {"parsed", "fit", "done"} /\ result = "SUCCESS"
     /\ fitTable # <<>>) =>
        \A km \in ValidEntries("AC_KEY_MANIFEST"), bp \in ValidEntries("AC_BOOT_POLICY") :
            bp.PubKey # 0 =>
                (KeyHashMismatchLogged <=> km.BpKeyHash # sha256(bp.PubKey))

\* ------------------------------------------------------------------------
\* C23: every DEPEX section whose body keeps the rules of the first opcode
\* and of the sizes (BEFORE or AFTER with one GUID and END and nothing
\* else; otherwise an optional SOR, then opcodes with PUSH followed by a
\* GUID, END being the last byte and only the last) has the parsed
\* expression in the info of its node once its body was parsed.
\* ------------------------------------------------------------------------
RECURSIVE DepexOpcodesOk(_, _)
DepexOpcodesOk(body, current) ==
    IF current >= Len(body) THEN FALSE
    ELSE CASE body[current + 1] = "END" -> current + 1 = Len(body)
           [] body[current + 1] = "PUSH" ->
                 /\ current + 17 < Len(body)
                 /\ \A j \in current + 2..current + 17 : body[j] = "g"
                 /\ DepexOpcodesOk(body, current + 17)
           [] body[current + 1] \in {"AND", "OR", "NOT", "TRUE", "FALSE"} ->
                 DepexOpcodesOk(body, current + 1)
           [] OTHER -> FALSE

DepexRulesKept(body) ==
    /\ Len(body) >= 2
    /\ CASE body[1] \in {"BEFORE", "AFTER"} ->
               /\ Len(body) = 18
               /\ \A j \in 2..17 : body[j] = "g"
               /\ body[18] = "END"
         [] body[1] = "SOR" -> Len(body) > 2 /\ DepexOpcodesOk(body, 1)
         [] OTHER -> DepexOpcodesOk(body, 0)

C23_DepexExpressionEmitted ==
    (pc # "start" /\ firstResult = "SUCCESS") =>
        \A i \in ItemIds(model) :
            (/\ model.items[i].type = "Section"
             /\ model.items[i].subtype = "DXE_DEPEX"
             /\ DepexRulesKept(SectionHeaderAt(image, model.items[i].header.s).bytes)) =>
                \E j \in 1..Len(model.items[i].info) :
                    model.items[i].info[j].k = "Parsed expression"

\* ------------------------------------------------------------------------
\* C25: with a File node of the Volume-Top-File GUID that is not compressed
\* in the tree, the last VTF the first pass records is not compressed, and
\* the second pass is not refused.
\* ------------------------------------------------------------------------
VtfFiles ==
    {i \in ItemIds(model) :
        /\ model.items[i].type = "File"
        /\ HasFileAt(image, model.items[i].header.s)
        /\ FileHeaderAt(image, model.items[i].header.s).guid = "vtf"}

SecondPassRefused ==
    \E k \in 1..Len(messages) :
        messages[k].text = "performSecondPass: the last VTF appears inside compressed item"

C25_KeepsNonCompressedVtf ==
    (/\ pc \notin {"start", "aborted"}
     /\ \E i \in VtfFiles : ~model.items[i].compressed) =>
        /\ lastVtf # NoIndex
        /\ ~model.items[lastVtf].compressed
        /\ ~SecondPassRefused

\* C25, amended: the last VTF is the File node of the Volume-Top-File GUID
\* that was added last, compressed or not; once the passes are over, the
\* second pass was refused exactly if that node is compressed, and wrote a
\* memory address on it exactly if it is not.
C25_LatestVtfWins ==
    (/\ pc \notin {"start", "aborted"}
     /\ \E i \in VtfFiles : ~model.items[i].compressed) =>
        /\ lastVtf \in VtfFiles
        /\ \A i \in VtfFiles : i <= lastVtf
        /\ (pc \in {"parsed", "fit", "done"} /\ firstResult = "SUCCESS") =>
              /\ SecondPassRefused <=> model.items[lastVtf].compressed
              /\ AddressesOf(lastVtf) # {} <=> ~model.items[lastVtf].compressed

\* a volume top file of the volume and, recorded after it, one inside a
\* decompressed section: the second pass was refused
C25_Witness ==
    /\ pc = "parsed"
    /\ firstResult = "SUCCESS"
    /\ \E i \in VtfFiles : ~model.items[i].compressed /\ i < lastVtf
    /\ model.items[lastVtf].compressed
    /\ SecondPassRefused


\* ------------------------------------------------------------------------
\* C26
\* ------------------------------------------------------------------------
\* the record of loopLog that follows record i in the same loop, 0 if none
NextStepOf(i) ==
    LET later == {j \in (i + 1)..Len(loopLog) : loopLog[j].loop = loopLog[i].loop}
    IN IF later = {} THEN 0 ELSE CHOOSE j \in later : \A k \in later : j <= k

\* every iteration of a parsing loop is either the first one after the entry
\* into the loop or works on the same item at a greater offset than the
\* iteration before it
LoopsAdvance ==
    \A i \in 1..Len(loopLog) :
        NextStepOf(i) # 0 =>
            \/ loopLog[NextStepOf(i)].at = -1
            \/ /\ loopLog[NextStepOf(i)].index = loopLog[i].index
               /\ loopLog[NextStepOf(i)].at > loopLog[i].at

\* C26: parse terminates on every finite input buffer: the first pass hands
\* its result back to parse, and every iteration of the raw-area volume loop,
\* the volume file loop, the section loop and the volume-signature search
\* strictly increases its offset, so that no loop visits an offset twice.
C26_ParseTerminates ==
    /\ pc # "aborted"
    /\ LoopsAdvance

\* the four loops alone, and the first pass of the newer parser
C26_LoopsAdvance == LoopsAdvance

C26_NewerParserReturns == engine = "part003" => pc # "aborted"


\* ------------------------------------------------------------------------
\* C27
\* ------------------------------------------------------------------------
\* the walk recorded in p added no item and left every item as it was; an
\* item of the model holds all the fields of a node (type and subtype stand
\* for its name)
TreeKept(p) ==
    /\ Len(p.after.items) = Len(p.before.items)
    /\ p.after.kids = p.before.kids
    /\ \A i \in 1..Len(p.before.items) :
           /\ p.after.items[i].text = p.before.items[i].text
           /\ p.after.items[i].info = p.before.items[i].info
           /\ p.after.items[i].pdata = p.before.items[i].pdata
           /\ p.after.items[i].fixed = p.before.items[i].fixed
           /\ p.after.items[i].compressed = p.before.items[i].compressed
           /\ p.after.items[i] = p.before.items[i]

\* C27: a section walk with insertIntoTree = false, as made on the two
\* outputs of an undecided decompression, leaves the tree exactly as it was:
\* it adds no node and changes no field of any existing node.
C27_PreparseKeepsTree ==
    \A k \in 1..Len(preparseLog) : TreeKept(preparseLog[k])

\* an output was walked with success in pre-parse mode, and its sections were
\* then inserted under the walked item
C27_Witness ==
    \E k \in 1..Len(preparseLog) :
        /\ preparseLog[k].ret = "SUCCESS"
        /\ preparseLog[k].before.kids[preparseLog[k].index] = <<>>
        /\ model.kids[preparseLog[k].index] # <<>>


\* ------------------------------------------------------------------------
\* C28
\* ------------------------------------------------------------------------
\* every node whose parent is compressed is itself compressed
CompressedInherited ==
    \A i \in ItemIds(model) :
        ItemAt(model, model.items[i].parent).compressed => model.items[i].compressed

\* a step that adds a node gives it the compressed mark of the node it is
\* put under, whatever the mark of a sibling
NewNodeTakesParentsMark ==
    Len(model'.items) = Len(model.items) + 1 =>
        model'.items[Len(model'.items)].compressed
            = ItemAt(model, model'.items[Len(model'.items)].parent).compressed

\* the two halves of C28 on their own
C28_Inherited == pc = "tree" => CompressedInherited

C28_AnchorIgnored == [][pc = "tree" => NewNodeTakesParentsMark]_vars

\* C28: after any sequence of addItem calls, in any insert mode, and
\* setCompressed calls every node whose parent is compressed is itself
\* compressed, and a node is never marked compressed merely because the
\* anchor sibling it was inserted next to is compressed.
C28_CompressedFollowsParent ==
    /\ [](pc = "tree" => CompressedInherited)
    /\ [][pc = "tree" => NewNodeTakesParentsMark]_vars


\* ------------------------------------------------------------------------
\* C30
\* ------------------------------------------------------------------------
\* C30: for any sequence of dump calls on one UEFIExtract instance the image
\* is parsed into the tree at most once: the first call parses it, and no
\* step of a later call puts further nodes into the model, also when an
\* earlier call returned an error of the FFS parse or of the FIT parse.
C30_ParsedAtMostOnce ==
    [][calls > 1 => Len(model'.items) = Len(model.items)]_vars

=============================================================================
